---- MODULE Spec2Model ----
(***************************************************************************)
(* The OSCAR audio engine (src/src/oscar_server/main.cpp): the synth and   *)
(* patch registries of AudioEngine, the two deferred-deletion queues, the  *)
(* realtime callback (cleanup, then mix) and the control-thread calls      *)
(* exported to Python on AudioEngine, Synth and Patch.                     *)
(*                                                                         *)
(* Every AudioEngine method holds engine_mutex_ for its whole body, so it  *)
(* is one atomic action.  The callback takes the mutex twice: once inside  *)
(* _cleanup() and once more for the mix, so control-thread calls can run   *)
(* between the two.  Synth and Patch setters take no engine lock.          *)
(*                                                                         *)
(* Numbers: a Synth record holds its frequency in Hz, its amplitude in     *)
(* tenths, its phase offset in units of 2^-FracBits cycle and its samples  *)
(* as small integers.  Arithmetic on float and double values is done on    *)
(* integers counting units of 2^-FracBits, rounded to the nearest value    *)
(* with FloatPrecision resp. Precision significant bits.                   *)
(***************************************************************************)
EXTENDS Integers, Sequences, FiniteSets, TLC

\* ------------------------------------------------------------------ bounds

\* Longest synth deletion queue the model lets build up between two cleanups.
MaxSynthQueue == 1
\* Longest patch deletion queue the model lets build up between two cleanups.
MaxPatchQueue == 2

\* AudioEngine::numOutputChannels_: the channel count the engine was built with.
NumOutputChannels == 2

\* Fraction bits of the unit in which float and double values are counted.
FracBits == 8
\* Significant bits of a double (53 in the build).
Precision == 6
\* Significant bits of a float (24 in the build).
FloatPrecision == 4
\* The master phase, in frames, beyond which the model starts no callback.
MaxPhase == 2
\* The largest frame count PortAudio hands to one callback.
MaxFrames == 2
\* The latest time, in clock ticks, that time.time() returns.
MaxTime == 3

\* 1.0 in units.
Unit == 2 ^ FracBits

\* deviceInfo->defaultSampleRate of the device the engine was opened on, in Hz.
SampleRate == 880

\* ------------------------------------------------------- program constants

\* Synth::frequency_{440.f}
DefaultFrequency == 440
\* Synth::amplitude_{0.5f}, in tenths
DefaultAmplitude == 5
\* Synth::phase_offset_{0.f}, in hundredths of a cycle
DefaultPhaseOffset == 0
\* The sample the Synth constructor pushes into an empty table (0.f)
SilentSample == 0
\* AudioEngine::master_volume{1.f}
DefaultMasterVolume == Unit

\* ------------------------------------------------------------ input sets

SynthNames == {"s1", "s2"}
PatchNames == {"p1", "p2"}
\* std::map iterates its keys in sorted order.
PatchOrder == <<"p1", "p2">>

\* Tables handed to get_or_create_synth / update_wavetable (py::array_t<float>).
Tables == {<< >>, <<1>>, <<2, 3>>}
\* The registry specification draws one table: what a table holds plays no
\* part in registration and deletion.
EngineTables == {<<1>>}
\* Channel lists handed to get_or_create_patch / set_channels; the index
\* NumOutputChannels is out of range.
ChannelLists == {<<0>>, <<1, NumOutputChannels>>}
\* Channel lists of the mixer specification: a repeated index with an index
\* past the last channel, and a negative index.
MixChannelLists == {<<0, 0, NumOutputChannels>>, <<-1, 1>>}
\* The mixer specification draws one table, of two different samples.
MixTables == {<<1, 3>>}
\* Volumes handed to set_master_volume (a Python float, that is a double):
\* 0, -0.5 and a value just above 2 that no float holds.
Volumes == {0, -(Unit \div 2), 2 * Unit + 2 ^ (FracBits - FloatPrecision + 1)}
\* The mixer specification draws one volume, -0.5.
MixVolumes == {-(Unit \div 2)}
\* What a read past the end of a wavetable can yield, in units.
JunkSamples == {0, 5 * Unit}
Frequencies == {DefaultFrequency, 220}

\* What a render call on its own draws from: tables of 1, 2 and 4 samples,
\* frequencies of either sign, phase offsets a quarter cycle apart, among
\* them the smallest negative one.
RenderTables == {<<1>>, <<1, 3>>, <<0, 2, 4, 6>>}
RenderFrequencies == {0, 220, DefaultFrequency, -220}
RenderOffsets == {DefaultPhaseOffset, Unit \div 4, -(Unit \div 4), -1,
                  Unit \div 4 - 1}
Amplitudes == {DefaultAmplitude, 10}
PhaseOffsets == {DefaultPhaseOffset, 25}

VARIABLES
    synths,                 \* AudioEngine::synths_ : name -> Synth
    patches,                \* AudioEngine::patches_ : name -> Patch
    synth_names_to_delete,  \* AudioEngine::synth_names_to_delete_
    patch_names_to_delete,  \* AudioEngine::patch_names_to_delete_
    pc,                     \* where the realtime callback is
    out,                    \* the callback's output buffer: per channel, the
                            \* patches accumulated into it, in order
    last,                   \* history: the branch taken by the call that was the
                            \* last step ("none" after any other step)
    doomed,                 \* history: names handed to the queues by delete_synth
                            \* calls since the last cleanup
    purged,                 \* history: what `doomed` held when the cleanup that
                            \* was the last step ran ({} after any other step)
    master_phase,           \* AudioEngine::master_phase_, in frames
    master_volume,          \* AudioEngine::master_volume, in units
    framesPerBuffer,        \* paCallback's argument (0 outside a callback)
    current_master_phase,   \* paCallback's local copy of master_phase_
    current_master_volume,  \* paCallback's local copy of master_volume
    outputBuffer,           \* paCallback's interleaved buffer: index -> units
    stray,                  \* the indices outside outputBuffer the mix wrote to
    starts,                 \* history: the master_phase_start of every render
                            \* call of the callback in progress
    volume_set,             \* history: the arguments of set_master_volume calls,
                            \* the latest only (empty before the first)
    job,                    \* a render call: the synth, a second synth that
                            \* differs in its phase offset, and the arguments
    rendered,               \* where the call is, and what it wrote for the two
                            \* synths, frame by frame
    used,                   \* history: the frequency, amplitude, phase offset
                            \* and wavetable each frame of the latest render
                            \* call was computed from
    engine_mutex,           \* AudioEngine::engine_mutex_: the thread that holds it
    ctl,                    \* the control thread: the call it is in, and where
    rt,                     \* the realtime thread: where paCallback is
    wavetable_mutex,        \* Synth::wavetable_mutex_ of every synth: the thread
                            \* that holds it
    ctor,                   \* AudioEngine::AudioEngine: its arguments, the step
                            \* it is at, and the error it threw
    stream_,                \* AudioEngine::stream_, as PortAudio has it
    continuity,             \* history: the synths the mix before the latest
                            \* passed over as not playing, and those of them
                            \* the latest mix rendered
    script,                 \* the performance script: its global lastTime, the
                            \* frequency and phase of the synth it smooths, and
                            \* (history) the time the latest smoothFreq
                            \* computed its phase with
    to_process,             \* the earlier engine's _cleanup(): its locals
                            \* synth_names_to_process, patch_names_to_process
    kept,                   \* history: the names get_or_create_synth and
                            \* get_or_create_patch returned for, less those a
                            \* delete_synth or delete_patch named since
    control                 \* a Control: its value, its callbacks by id, and
                            \* (history) the calls its latest update made

\* The registry and its callback.
registry_vars == <<synths, patches, synth_names_to_delete, patch_names_to_delete,
              pc, out, last, doomed, purged>>
\* The mixer: master phase, master volume and the callback's numbers.
mixer == <<master_phase, master_volume, framesPerBuffer, current_master_phase,
           current_master_volume, outputBuffer, stray, starts, volume_set>>
\* One render call on its own.
renderer == <<job, rendered, used>>
\* The scripting runtime above the engine.
runtime == <<script, control>>
\* The constructor's progress and the stream it opens.
construction == <<ctor, stream_>>
\* What the threads' steps leave alone, registry and mixer apart.
offline == <<renderer, construction, continuity, kept, to_process, runtime>>
\* The two threads and the engine mutex, step by step.
threads == <<engine_mutex, ctl, rt, wavetable_mutex>>
\* What the registry's actions leave alone.
others == <<mixer, offline, threads>>
\* What the mixer's actions leave alone, the registry apart.
outside_mixer == <<offline, threads>>
\* What a render call on its own leaves alone.
outside_renderer == <<registry_vars, mixer, threads, construction, continuity,
                      kept, to_process, runtime>>
\* What the constructor leaves alone.
outside_construction == <<registry_vars, mixer, threads, renderer, continuity,
                          kept, to_process, runtime>>
\* What the scripting runtime's own steps leave alone: the native engine.
engine == <<registry_vars, mixer, threads, renderer, construction, continuity,
            kept, to_process>>

vars == <<registry_vars, others>>

Range(s) == {s[i] : i \in 1..Len(s)}

\* ------------------------------------------------------- float and double

Abs(x) == IF x < 0 THEN -x ELSE x
Sign(x) == IF x < 0 THEN -1 ELSE 1

\* The number of bits of the natural number m.
RECURSIVE BitLength(_)
BitLength(m) == IF m = 0 THEN 0 ELSE 1 + BitLength(m \div 2)

\* n / d (n >= 0, d > 0) rounded to the nearest integer, ties to even.
RoundHalfEven(n, d) ==
    LET q == n \div d
        r == n % d
    IN IF 2 * r > d \/ (2 * r = d /\ q % 2 = 1) THEN q + 1 ELSE q

\* n / d units (n >= 0, d > 0) rounded to the nearest value with `bits`
\* significant bits, and to a whole unit where it is smaller than that.
Quantise(n, d, bits) ==
    LET length == BitLength(n \div d) IN
    IF length <= bits THEN RoundHalfEven(n, d)
    ELSE LET ulp == 2 ^ (length - bits) IN RoundHalfEven(n, d * ulp) * ulp

\* Conversion to double and to float.
ToDouble(x) == Sign(x) * Quantise(Abs(x), 1, Precision)
ToFloat(x) == Sign(x) * Quantise(Abs(x), 1, FloatPrecision)

\* double + double, double * double, double / double
Add(a, b) == ToDouble(a + b)
Mul(a, b) == Sign(a) * Sign(b) * Quantise(Abs(a) * Abs(b), Unit, Precision)
Div(a, b) == Sign(a) * Sign(b) * Quantise(Abs(a) * Unit, Abs(b), Precision)

\* float * float, float + float
MulF(a, b) == Sign(a) * Sign(b) * Quantise(Abs(a) * Abs(b), Unit, FloatPrecision)
AddF(a, b) == ToFloat(a + b)

\* fmod(x, y): the remainder with the sign of x; always exact.
Fmod(x, y) == Sign(x) * (Abs(x) % Abs(y))

\* static_cast<unsigned int> of a double that is not negative: truncation.
Trunc(x) == x \div Unit

Channels == 0..(NumOutputChannels - 1)

\* std::fill_n(out, framesPerBuffer * numOutputChannels_, 0.0f)
ZeroBuffer == [c \in Channels |-> << >>]

\* ------------------------------------------------------------------ Synth

\* A Synth that is playing as soon as it is constructed.
NewSynthPlaying(table) ==
    [is_playing   |-> TRUE,
     frequency    |-> DefaultFrequency,
     amplitude    |-> DefaultAmplitude,
     phase_offset |-> DefaultPhaseOffset,
     wavetable    |-> IF table = << >> THEN <<SilentSample>> ELSE table]

\* Synth::Synth(sample_rate, table): an empty table gets one silent sample.
NewSynth(table) ==
    [is_playing   |-> FALSE,
     frequency    |-> DefaultFrequency,
     amplitude    |-> DefaultAmplitude,
     phase_offset |-> DefaultPhaseOffset,
     wavetable    |-> IF table = << >> THEN <<SilentSample>> ELSE table]

\* update_wavetable without its empty-table test.
update_wavetable_unchecked(s, new_table) == [s EXCEPT !.wavetable = new_table]

\* update_wavetable copying the new samples over the old table in place, so
\* that a longer old table keeps its tail.
update_wavetable_overlay(s, new_table) ==
    IF new_table = << >> THEN s
    ELSE [s EXCEPT !.wavetable =
            [i \in 1..(IF Len(@) > Len(new_table) THEN Len(@) ELSE Len(new_table))
               |-> IF i <= Len(new_table) THEN new_table[i] ELSE @[i]]]

\* Synth::update_wavetable(new_table) on a synth record.
update_wavetable(s, new_table) ==
    IF new_table = << >> THEN s ELSE [s EXCEPT !.wavetable = new_table]

\* The doubles and floats render works on, in units.
Hz(frequency) == ToDouble(frequency * Unit)
Tenths(amplitude) ==
    Sign(amplitude) * Quantise(Abs(amplitude) * Unit, 10, Precision)
Sample(value) == ToFloat(value * Unit)

\* current_master_phase at frame i (1-based): one `+= 1.f` per earlier frame.
RECURSIVE PhaseAt(_, _)
PhaseAt(master_phase_start, i) ==
    IF i = 1 THEN master_phase_start
    ELSE Add(PhaseAt(master_phase_start, i - 1), Unit)

\* A phase offset taken for a number of samples, not of cycles.
SampleOffsetInSamples(s, table_size) == ToDouble(s.phase_offset)

\* sample_offset = phase_offset_.load() * table_size
SampleOffset(s, table_size) == Mul(ToDouble(s.phase_offset), table_size)

\* The body of render's loop at master phase `phase`.  A read of wavetable_
\* past its end yields `junk`.
RenderFrame(s, phase, junk) ==
    LET size == Len(s.wavetable)
        table_size == ToDouble(size * Unit)
        freq == Hz(s.frequency)
        amp == Tenths(s.amplitude)
        sample_offset == SampleOffset(s, table_size)
        total_cycles == Div(Mul(phase, freq), ToDouble(SampleRate * Unit))
        phase_with_offset == Add(Mul(total_cycles, table_size), sample_offset)
        remainder == Fmod(phase_with_offset, table_size)
        phase_wrapped == IF remainder < 0 THEN Add(remainder, table_size)
                                          ELSE remainder
        i0 == Trunc(phase_wrapped)
        i1 == (i0 + 1) % size
        frac == Add(phase_wrapped, -(i0 * Unit))
        val0 == IF i0 < size THEN Sample(s.wavetable[i0 + 1]) ELSE junk
        val1 == Sample(s.wavetable[i1 + 1])
        current_sample == ToFloat(Add(val0, Mul(frac, ToFloat(val1 - val0))))
    IN [phase_wrapped |-> phase_wrapped, i0 |-> i0, i1 |-> i1, frac |-> frac,
        val0 |-> val0, val1 |-> val1,
        mono_out |-> ToFloat(Mul(current_sample, amp))]

\* Synth::render(mono_out, frames, master_phase_start): one record per frame.
Render(s, frames, master_phase_start, junk) ==
    [i \in 1..frames |-> RenderFrame(s, PhaseAt(master_phase_start, i), junk)]

\* ------------------------------------------------------------------ Patch

\* Patch::Patch(synth_name, channels)
NewPatch(synth_name, channels) ==
    [synth_name |-> synth_name, channels |-> channels]

\* ------------------------------------------------------------ AudioEngine

\* The engine mutex is free: the callback is not inside its mix.
EngineLockFree == pc # "mixed"

list_synths == DOMAIN synths
list_patches == DOMAIN patches

\* The patches bound to synth `name` (the loop of delete_synth), in map order.
RECURSIVE BoundPatches(_, _)
BoundPatches(name, i) ==
    IF i > Len(PatchOrder) THEN << >>
    ELSE LET p == PatchOrder[i] IN
         IF p \in DOMAIN patches /\ patches[p].synth_name = name
         THEN <<p>> \o BoundPatches(name, i + 1)
         ELSE BoundPatches(name, i + 1)

\* An empty std::map.
EmptyMap == [n \in {} |-> n]

\* std::map::erase for every name of a list.
EraseAll(map, names) == [n \in DOMAIN map \ Range(names) |-> map[n]]

\* map[name] = value
Put(map, name, value) ==
    [n \in DOMAIN map \cup {name} |-> IF n = name THEN value ELSE map[n]]

\* A call of the Python interface: the method and its arguments.
Call(op, synth_name, patch_name, channels) ==
    [op |-> op, at |-> "idle", synth |-> synth_name, patch |-> patch_name,
     channels |-> channels, volume |-> 0]

\* The control thread is in no call.
NoCall == Call("none", "", "", << >>)

\* The engine as constructed: nothing registered, no callback running.
InitEngine ==
    /\ synths = EmptyMap
    /\ patches = EmptyMap
    /\ synth_names_to_delete = << >>
    /\ patch_names_to_delete = << >>
    /\ pc = "idle"
    /\ out = ZeroBuffer
    /\ last = "none"
    /\ doomed = {}
    /\ purged = {}
    /\ master_phase = 0
    /\ master_volume = DefaultMasterVolume
    /\ framesPerBuffer = 0
    /\ current_master_phase = 0
    /\ current_master_volume = 0
    /\ outputBuffer = << >>
    /\ stray = {}
    /\ starts = {}
    /\ volume_set = << >>
    /\ engine_mutex = "free"
    /\ ctl = NoCall
    /\ rt = [at |-> "idle", cursor |-> 0]
    /\ wavetable_mutex = [n \in SynthNames |-> "free"]
    /\ continuity = [passed_over |-> {}, resumed |-> {}]
    /\ kept = {}
    /\ to_process = [synths |-> << >>, patches |-> << >>]
    /\ used = << >>
    /\ script = [lastTime |-> 0, freq |-> DefaultFrequency,
                 phase |-> DefaultPhaseOffset, t_now |-> 0]
    /\ control = [value |-> 0, callbacks |-> << >>, calls |-> << >>]

\* The maximum output channels of the devices PortAudio lists, device 0 first.
DeviceMaxOutputChannels == <<NumOutputChannels, 2 * NumOutputChannels, 0>>

\* Pa_GetDeviceInfo(deviceIndex) != nullptr
DeviceResolves(deviceIndex) == deviceIndex \in 0..(Len(DeviceMaxOutputChannels) - 1)

\* deviceInfo->maxOutputChannels
MaxOutputChannels(deviceIndex) == DeviceMaxOutputChannels[deviceIndex + 1]

\* A construction: its arguments, the step it is at and the error thrown.
Construction(deviceIndex, numChannels, at, error) ==
    [device_index |-> deviceIndex, num_channels |-> numChannels, at |-> at,
     error |-> error]

\* The constructor has returned: the stream is open and started.
Constructed ==
    /\ ctor = Construction(0, NumOutputChannels, "constructed", "")
    /\ stream_ = "started"

Init ==
    /\ InitEngine
    /\ Constructed
    /\ job = [synth |-> NewSynth(<< >>), other |-> NewSynth(<< >>),
              frames |-> 0, master_phase_start |-> 0]
    /\ rendered = [at |-> "none", synth |-> << >>, other |-> << >>]

\* ------------------------------------------------- control-thread calls

\* get_or_create_synth constructing a new Synth even for a registered name.
GetOrCreateSynthFresh(name, table) ==
    /\ EngineLockFree
    /\ synths' = Put(synths, name, NewSynth(table))
    /\ last' = IF name \in DOMAIN synths THEN "get_or_create_synth:existing"
                                         ELSE "get_or_create_synth:created"
    /\ UNCHANGED <<patches, synth_names_to_delete, patch_names_to_delete,
                   pc, out, doomed>>
    /\ purged' = {}
    /\ UNCHANGED others

\* AudioEngine::get_or_create_synth(name, table): the body.
get_or_create_synth(name, table) ==
    /\ IF name \in DOMAIN synths
       THEN /\ synths' = [synths EXCEPT ![name] = update_wavetable(@, table)]
            /\ last' = "get_or_create_synth:existing"
       ELSE /\ synths' = Put(synths, name, NewSynth(table))
            /\ last' = "get_or_create_synth:created"
    /\ UNCHANGED <<patches, synth_names_to_delete, patch_names_to_delete,
                   pc, out, doomed>>
    /\ purged' = {}

\* A call of get_or_create_synth, with the engine mutex held throughout.
GetOrCreateSynth(name, table) ==
    /\ EngineLockFree
    /\ get_or_create_synth(name, table)
    /\ UNCHANGED others

\* get_or_create_patch without its test that the synth is registered.
GetOrCreatePatchUnchecked(patch_name, synth_name, channels) ==
    /\ EngineLockFree
    /\ patches' = Put(patches, patch_name, NewPatch(synth_name, channels))
    /\ last' = IF patch_name \in DOMAIN patches THEN "get_or_create_patch:existing"
                                                ELSE "get_or_create_patch:created"
    /\ UNCHANGED <<synths, synth_names_to_delete, patch_names_to_delete,
                   pc, out, doomed>>
    /\ purged' = {}
    /\ UNCHANGED others

\* get_or_create_patch returning a registered patch as it is, not overwritten.
GetOrCreatePatchKeep(patch_name, synth_name, channels) ==
    /\ EngineLockFree
    /\ IF synth_name \notin DOMAIN synths
       THEN /\ last' = "get_or_create_patch:UnknownSynth"
            /\ UNCHANGED patches
       ELSE IF patch_name \in DOMAIN patches
       THEN /\ last' = "get_or_create_patch:existing"
            /\ UNCHANGED patches
       ELSE /\ patches' = Put(patches, patch_name, NewPatch(synth_name, channels))
            /\ last' = "get_or_create_patch:created"
    /\ UNCHANGED <<synths, synth_names_to_delete, patch_names_to_delete,
                   pc, out, doomed>>
    /\ purged' = {}
    /\ UNCHANGED others

\* AudioEngine::get_or_create_patch(patch_name, synth_name, channels): the body.
get_or_create_patch(patch_name, synth_name, channels) ==
    /\ IF synth_name \notin DOMAIN synths
       THEN /\ last' = "get_or_create_patch:UnknownSynth"
            /\ UNCHANGED patches
       ELSE IF patch_name \in DOMAIN patches
       THEN /\ patches' = [patches EXCEPT ![patch_name] =
                              [@ EXCEPT !.synth_name = synth_name,
                                        !.channels = channels]]
            /\ last' = "get_or_create_patch:existing"
       ELSE /\ patches' = Put(patches, patch_name, NewPatch(synth_name, channels))
            /\ last' = "get_or_create_patch:created"
    /\ UNCHANGED <<synths, synth_names_to_delete, patch_names_to_delete,
                   pc, out, doomed>>
    /\ purged' = {}

\* A call of get_or_create_patch, with the engine mutex held throughout.
GetOrCreatePatch(patch_name, synth_name, channels) ==
    /\ EngineLockFree
    /\ get_or_create_patch(patch_name, synth_name, channels)
    /\ UNCHANGED others

\* delete_synth erasing the synth on the calling thread.
DeleteSynthNow(name) ==
    /\ EngineLockFree
    /\ IF name \notin DOMAIN synths
       THEN /\ last' = "delete_synth:unknown"
            /\ UNCHANGED synths
       ELSE /\ synths' = EraseAll(synths, <<name>>)
            /\ last' = "delete_synth:queued"
    /\ UNCHANGED <<patches, synth_names_to_delete, patch_names_to_delete,
                   pc, out, doomed>>
    /\ purged' = {}
    /\ UNCHANGED others

\* delete_synth without its test that the name is registered.
DeleteSynthAlways(name) ==
    /\ EngineLockFree
    /\ Len(synth_names_to_delete) < MaxSynthQueue
    /\ Len(patch_names_to_delete) + Len(BoundPatches(name, 1)) <= MaxPatchQueue
    /\ synth_names_to_delete' = Append(synth_names_to_delete, name)
    /\ patch_names_to_delete' = patch_names_to_delete \o BoundPatches(name, 1)
    /\ doomed' = IF name \in DOMAIN synths
                 THEN doomed \cup {name} \cup
                      {p \in DOMAIN patches : patches[p].synth_name = name}
                 ELSE doomed
    /\ last' = IF name \in DOMAIN synths THEN "delete_synth:queued"
                                         ELSE "delete_synth:unknown"
    /\ UNCHANGED <<synths, patches, pc, out>>
    /\ purged' = {}
    /\ UNCHANGED others

\* AudioEngine::delete_synth(name): the body.
delete_synth(name) ==
    /\ IF name \notin DOMAIN synths
       THEN /\ last' = "delete_synth:unknown"
            /\ UNCHANGED <<synth_names_to_delete, patch_names_to_delete, doomed>>
       ELSE /\ Len(synth_names_to_delete) < MaxSynthQueue
            /\ Len(patch_names_to_delete) + Len(BoundPatches(name, 1)) <= MaxPatchQueue
            /\ synth_names_to_delete' = Append(synth_names_to_delete, name)
            /\ patch_names_to_delete' =
                   patch_names_to_delete \o BoundPatches(name, 1)
            /\ doomed' = doomed \cup {name} \cup
                   {p \in DOMAIN patches : patches[p].synth_name = name}
            /\ last' = "delete_synth:queued"
    /\ UNCHANGED <<synths, patches, pc, out>>
    /\ purged' = {}

\* A call of delete_synth, with the engine mutex held throughout.
DeleteSynth(name) ==
    /\ EngineLockFree
    /\ delete_synth(name)
    /\ UNCHANGED others

\* AudioEngine::delete_patch(name): the body.
delete_patch(name) ==
    /\ IF name \notin DOMAIN patches
       THEN /\ last' = "delete_patch:unknown"
            /\ UNCHANGED patch_names_to_delete
       ELSE /\ Len(patch_names_to_delete) < MaxPatchQueue
            /\ patch_names_to_delete' = Append(patch_names_to_delete, name)
            /\ last' = "delete_patch:queued"
    /\ UNCHANGED <<synths, patches, synth_names_to_delete, pc, out, doomed>>
    /\ purged' = {}

\* A call of delete_patch, with the engine mutex held throughout.
DeletePatch(name) ==
    /\ EngineLockFree
    /\ delete_patch(name)
    /\ UNCHANGED others

\* stop_all, had it passed over the synths queued for deletion.
stop_all_but_queued ==
    /\ synths' = [n \in DOMAIN synths |->
                    IF \E i \in DOMAIN synth_names_to_delete :
                           synth_names_to_delete[i] = n
                    THEN synths[n]
                    ELSE [synths[n] EXCEPT !.is_playing = FALSE]]
    /\ last' = "stop_all"
    /\ UNCHANGED <<patches, synth_names_to_delete, patch_names_to_delete,
                   pc, out, doomed>>
    /\ purged' = {}

\* AudioEngine::stop_all(): the body.
stop_all ==
    /\ synths' = [n \in DOMAIN synths |-> [synths[n] EXCEPT !.is_playing = FALSE]]
    /\ last' = "stop_all"
    /\ UNCHANGED <<patches, synth_names_to_delete, patch_names_to_delete,
                   pc, out, doomed>>
    /\ purged' = {}

\* A call of stop_all, with the engine mutex held throughout.
StopAll ==
    /\ EngineLockFree
    /\ stop_all
    /\ UNCHANGED others

\* Patch::set_synth_name(name), on the patch registered as patch_name.
set_synth_name(patch_name, name) ==
    /\ patches' = [patches EXCEPT ![patch_name].synth_name = name]
    /\ last' = "none"
    /\ UNCHANGED <<synths, synth_names_to_delete, patch_names_to_delete,
                   pc, out, doomed>>
    /\ purged' = {}

\* A call of set_synth_name on the handle of a registered patch: no mutex.
SetSynthName(patch_name, name) ==
    /\ patch_name \in DOMAIN patches
    /\ set_synth_name(patch_name, name)
    /\ UNCHANGED others

\* Patch::set_channels(channels), on the patch registered as patch_name.
set_channels(patch_name, channels) ==
    /\ patches' = [patches EXCEPT ![patch_name].channels = channels]
    /\ last' = "none"
    /\ UNCHANGED <<synths, synth_names_to_delete, patch_names_to_delete,
                   pc, out, doomed>>
    /\ purged' = {}

\* A call of set_channels on the handle of a registered patch: no mutex.
SetChannels(patch_name, channels) ==
    /\ patch_name \in DOMAIN patches
    /\ set_channels(patch_name, channels)
    /\ UNCHANGED others

\* A Synth setter on the handle of a registered synth: `field` becomes `value`.
SynthStore(name, field, value) ==
    /\ name \in DOMAIN synths
    /\ synths' = [synths EXCEPT ![name] = [@ EXCEPT ![field] = value]]
    /\ last' = "none"
    /\ UNCHANGED <<patches, synth_names_to_delete, patch_names_to_delete,
                   pc, out, doomed>>
    /\ purged' = {}
    /\ UNCHANGED others

\* start(), had it also rewound the synth to a phase of its own.
StartRewound(name) ==
    /\ name \in DOMAIN synths
    /\ synths' = [synths EXCEPT ![name] = [@ EXCEPT !.is_playing = TRUE,
                                                     !.phase_offset = @ - 1]]
    /\ last' = "none"
    /\ UNCHANGED <<patches, synth_names_to_delete, patch_names_to_delete,
                   pc, out, doomed>>
    /\ purged' = {}
    /\ UNCHANGED others

\* Synth::start()
Start(name) == SynthStore(name, "is_playing", TRUE)
\* Synth::stop()
Stop(name) == SynthStore(name, "is_playing", FALSE)
\* Synth::set_frequency(freq)
SetFrequency(name, freq) == SynthStore(name, "frequency", freq)
\* Synth::set_amplitude(amp)
SetAmplitude(name, amp) == SynthStore(name, "amplitude", amp)
\* Synth::set_phase_offset(offset)
SetPhaseOffset(name, offset) ==
    SynthStore(name, "phase_offset", offset)

\* Synth::update_wavetable(new_table), on the handle of a registered synth
UpdateWavetable(name, new_table) ==
    /\ name \in DOMAIN synths
    /\ synths' = [synths EXCEPT ![name] = update_wavetable(@, new_table)]
    /\ last' = IF new_table = << >> THEN "update_wavetable:empty"
                                    ELSE "update_wavetable:replaced"
    /\ UNCHANGED <<patches, synth_names_to_delete, patch_names_to_delete,
                   pc, out, doomed>>
    /\ purged' = {}
    /\ UNCHANGED others

\* A call of get_or_create_synth that returns the synth of `name`.
GetOrCreateSynthReturns(name, table) ==
    /\ EngineLockFree
    /\ get_or_create_synth(name, table)
    /\ kept' = kept \cup {name}
    /\ UNCHANGED <<mixer, threads, renderer, construction, continuity, to_process,
                   runtime>>

\* A call of get_or_create_patch: it returns the patch of `patch_name`, or
\* throws when no synth has the name `synth_name`.
GetOrCreatePatchReturns(patch_name, synth_name, channels) ==
    /\ EngineLockFree
    /\ get_or_create_patch(patch_name, synth_name, channels)
    /\ kept' = IF synth_name \in DOMAIN synths THEN kept \cup {patch_name}
                                               ELSE kept
    /\ UNCHANGED <<mixer, threads, renderer, construction, continuity, to_process,
                   runtime>>

\* A call of delete_synth: it names the synth and the patches bound to it.
DeleteSynthCalled(name) ==
    /\ EngineLockFree
    /\ delete_synth(name)
    /\ kept' = kept \ ({name} \cup
                         {p \in DOMAIN patches : patches[p].synth_name = name})
    /\ UNCHANGED <<mixer, threads, renderer, construction, continuity, to_process,
                   runtime>>

\* A call of delete_patch.
DeletePatchCalled(name) ==
    /\ EngineLockFree
    /\ delete_patch(name)
    /\ kept' = kept \ {name}
    /\ UNCHANGED <<mixer, threads, renderer, construction, continuity, to_process,
                   runtime>>

\* ------------------------------------------------------ realtime callback

\* A cleanup that erases only the first queued patch.
CleanedPatchesFirstOnly ==
    IF patch_names_to_delete = << >> THEN patches
    ELSE EraseAll(patches, <<Head(patch_names_to_delete)>>)

\* A cleanup that clears the synth queue without erasing the synths.
CleanedSynthsKept == synths

\* A cleanup that spares a queued patch that is now bound to a synth that
\* is registered and not queued.
CleanedPatchesStillBound ==
    [p \in DOMAIN patches \
        {q \in Range(patch_names_to_delete) \cap DOMAIN patches :
            \/ patches[q].synth_name \notin DOMAIN synths
            \/ patches[q].synth_name \in Range(synth_names_to_delete)}
     |-> patches[p]]

\* AudioEngine::_cleanup(): drop the queued patches, then the queued synths.
CleanedPatches == EraseAll(patches, patch_names_to_delete)
CleanedSynths == EraseAll(synths, synth_names_to_delete)

\* A cleanup that returns early when either queue is empty.
cleanup_when_both_queued ==
    IF synth_names_to_delete = << >> \/ patch_names_to_delete = << >>
    THEN /\ UNCHANGED <<synths, patches, synth_names_to_delete,
                        patch_names_to_delete, doomed>>
         /\ purged' = {}
         /\ last' = "none"
    ELSE /\ patches' = CleanedPatches
         /\ synths' = CleanedSynths
         /\ patch_names_to_delete' = << >>
         /\ synth_names_to_delete' = << >>
         /\ doomed' = {}
         /\ purged' = doomed
         /\ last' = "none"

\* AudioEngine::_cleanup(): the body.
cleanup ==
    /\ patches' = CleanedPatches
    /\ synths' = CleanedSynths
    /\ patch_names_to_delete' = << >>
    /\ synth_names_to_delete' = << >>
    /\ doomed' = {}
    /\ purged' = doomed
    /\ last' = "none"

\* paCallback up to its fill_n, on the registry: _cleanup() under the engine
\* mutex, then the output buffer (private to the callback) is zeroed.
Cleanup ==
    /\ pc = "idle"
    /\ cleanup
    /\ out' = ZeroBuffer
    /\ pc' = "cleaned"

\* paCallback, first part, in the registry specification.
CallbackCleanup ==
    /\ Cleanup
    /\ UNCHANGED others

\* The mix loop's test for one patch: its synth is registered and playing.
Renders(p) ==
    /\ patches[p].synth_name \in DOMAIN synths
    /\ synths[patches[p].synth_name].is_playing

\* What one patch adds to channel c: one entry per in-range occurrence of c.
RECURSIVE PatchInto(_, _, _)
PatchInto(p, c, i) ==
    IF i > Len(patches[p].channels) THEN << >>
    ELSE LET channel_index == patches[p].channels[i] IN
         (IF channel_index < NumOutputChannels /\ channel_index = c
          THEN <<p>> ELSE << >>) \o PatchInto(p, c, i + 1)

\* The mix loop over patches_, in map order, for channel c.
RECURSIVE MixInto(_, _)
MixInto(c, i) ==
    IF i > Len(PatchOrder) THEN << >>
    ELSE LET p == PatchOrder[i] IN
         (IF p \in DOMAIN patches /\ Renders(p) THEN PatchInto(p, c, 1) ELSE << >>)
         \o MixInto(c, i + 1)

\* paCallback, second part: the mix, under the engine mutex.
CallbackMix ==
    /\ pc = "cleaned"
    /\ out' = [c \in Channels |-> MixInto(c, 1)]
    /\ pc' = "mixed"
    /\ last' = "none"
    /\ UNCHANGED <<synths, patches, synth_names_to_delete, patch_names_to_delete,
                   doomed>>
    /\ purged' = {}
    /\ UNCHANGED others

\* paCallback returns paContinue: the mutex is released and the buffer goes
\* to the device.
CallbackReturn ==
    /\ pc = "mixed"
    /\ pc' = "idle"
    /\ out' = ZeroBuffer
    /\ last' = "none"
    /\ purged' = {}
    /\ UNCHANGED others
    /\ UNCHANGED <<synths, patches, synth_names_to_delete, patch_names_to_delete,
                   doomed>>

\* ------------------------------------------- the callback, with numbers

\* set_master_volume, had it clamped the volume to [0, 1].
set_master_volume_clamped(volume) ==
    /\ master_volume' = ToFloat(IF volume < 0 THEN 0
                                ELSE IF volume > Unit THEN Unit ELSE volume)
    /\ volume_set' = <<volume>>
    /\ last' = "none"
    /\ purged' = {}
    /\ UNCHANGED <<synths, patches, synth_names_to_delete, patch_names_to_delete,
                   pc, out, doomed>>
    /\ UNCHANGED <<master_phase, framesPerBuffer, current_master_phase,
                   current_master_volume, outputBuffer, stray, starts>>

\* AudioEngine::set_master_volume(volume), the body: the Python float becomes
\* a float.
set_master_volume(volume) ==
    /\ master_volume' = ToFloat(volume)
    /\ volume_set' = <<volume>>
    /\ last' = "none"
    /\ purged' = {}
    /\ UNCHANGED <<synths, patches, synth_names_to_delete, patch_names_to_delete,
                   pc, out, doomed>>
    /\ UNCHANGED <<master_phase, framesPerBuffer, current_master_phase,
                   current_master_volume, outputBuffer, stray, starts>>

\* A call of set_master_volume, with the engine mutex held throughout.
SetMasterVolume(volume) ==
    /\ EngineLockFree
    /\ set_master_volume(volume)
    /\ UNCHANGED outside_mixer

\* AudioEngine::get_master_volume()
get_master_volume == master_volume

\* A fill that zeroes one sample per frame, not one per frame and channel.
fill_n_frames(buffer, count) ==
    [i \in DOMAIN buffer |->
        IF i < count \div NumOutputChannels THEN 0 ELSE buffer[i]]

\* std::fill_n(out, count, 0.0f): the first `count` samples become 0.
fill_n(buffer, count) ==
    [i \in DOMAIN buffer |-> IF i < count THEN 0 ELSE buffer[i]]

\* paCallback up to its fill_n, for a buffer of `frames` frames.  The device
\* hands over a buffer that holds anything.
CallbackBegin(frames) ==
    /\ master_phase + frames * Unit <= MaxPhase * Unit
    /\ Cleanup
    /\ framesPerBuffer' = frames
    /\ \E held \in JunkSamples :
          outputBuffer' =
             fill_n([i \in 0..(frames * NumOutputChannels - 1) |-> held],
                    frames * NumOutputChannels)
    /\ UNCHANGED <<master_phase, master_volume, current_master_phase,
                   current_master_volume, stray, starts, volume_set>>
    /\ UNCHANGED outside_mixer

\* paCallback: the two atomic loads, outside the engine mutex.
CallbackLoad ==
    /\ pc = "cleaned"
    /\ framesPerBuffer > 0
    /\ current_master_phase' = master_phase
    /\ current_master_volume' = master_volume
    /\ pc' = "loaded"
    /\ last' = "none"
    /\ purged' = {}
    /\ UNCHANGED <<synths, patches, synth_names_to_delete, patch_names_to_delete,
                   out, doomed>>
    /\ UNCHANGED <<master_phase, master_volume, framesPerBuffer, outputBuffer,
                   stray, starts, volume_set>>
    /\ UNCHANGED outside_mixer

\* A mix that stores (=) where the callback accumulates (+=).
RECURSIVE MixFramesStore(_, _, _, _)
MixFramesStore(acc, mono, channel_index, frame) ==
    IF frame >= framesPerBuffer THEN acc
    ELSE LET index == frame * NumOutputChannels + channel_index
             scaled == MulF(mono[frame + 1].mono_out, current_master_volume)
             next == IF index \in DOMAIN acc.buffer
                     THEN [acc EXCEPT !.buffer[index] = scaled]
                     ELSE [acc EXCEPT !.stray = @ \cup {index}]
         IN MixFramesStore(next, mono, channel_index, frame + 1)

\* out[frame * numOutputChannels_ + channel_index] += mono * volume, for the
\* frames from `frame` on.  An index outside the buffer is recorded in stray.
RECURSIVE MixFrames(_, _, _, _)
MixFrames(acc, mono, channel_index, frame) ==
    IF frame >= framesPerBuffer THEN acc
    ELSE LET index == frame * NumOutputChannels + channel_index
             scaled == MulF(mono[frame + 1].mono_out, current_master_volume)
             next == IF index \in DOMAIN acc.buffer
                     THEN [acc EXCEPT !.buffer[index] = AddF(@, scaled)]
                     ELSE [acc EXCEPT !.stray = @ \cup {index}]
         IN MixFrames(next, mono, channel_index, frame + 1)

\* The loop over one patch's channel list, from its k-th entry on.
RECURSIVE MixChannels(_, _, _, _)
MixChannels(acc, mono, channels, k) ==
    IF k > Len(channels) THEN acc
    ELSE MixChannels(IF channels[k] < NumOutputChannels
                     THEN MixFrames(acc, mono, channels[k], 0)
                     ELSE acc,
                     mono, channels, k + 1)

\* The loop over patches_, taken in the order `order`, from its i-th name on.
RECURSIVE MixPatchesIn(_, _, _, _)
MixPatchesIn(order, acc, i, junk) ==
    IF i > Len(order) THEN acc
    ELSE LET p == order[i] IN
         IF p \in DOMAIN patches /\ Renders(p)
         THEN LET mono == Render(synths[patches[p].synth_name], framesPerBuffer,
                                 current_master_phase, junk)
                  started == [acc EXCEPT !.starts = @ \cup {current_master_phase}]
              IN MixPatchesIn(order,
                              MixChannels(started, mono, patches[p].channels, 1),
                              i + 1, junk)
         ELSE MixPatchesIn(order, acc, i + 1, junk)

\* The loop over patches_, in map order, from the i-th name on.
MixPatches(acc, i, junk) == MixPatchesIn(PatchOrder, acc, i, junk)

\* A store of the master phase advanced once for every render call.
AdvancedPhasePerRender(renders) ==
    Add(current_master_phase, renders * framesPerBuffer * Unit)

\* current_master_phase + framesPerBuffer
AdvancedPhase(renders) == Add(current_master_phase, framesPerBuffer * Unit)

\* paCallback: the mix under the engine mutex, and the store of the master
\* phase.
MixAndAdvance ==
    /\ pc = "loaded"
    /\ \E junk \in JunkSamples :
          LET mixed == MixPatches([buffer |-> outputBuffer, stray |-> {},
                                   starts |-> {}], 1, junk)
          IN /\ outputBuffer' = mixed.buffer
             /\ stray' = mixed.stray
             /\ starts' = mixed.starts
    /\ master_phase' =
          AdvancedPhase(Cardinality({p \in DOMAIN patches : Renders(p)}))
    /\ pc' = "mixed"
    /\ last' = "none"
    /\ purged' = {}
    /\ UNCHANGED <<synths, patches, synth_names_to_delete, patch_names_to_delete,
                   out, doomed>>
    /\ UNCHANGED <<master_volume, framesPerBuffer, current_master_phase,
                   current_master_volume, volume_set>>

\* The mix step of a callback.
CallbackRender ==
    /\ MixAndAdvance
    /\ UNCHANGED outside_mixer

\* The synths a registered patch names that the mix does not render, being
\* registered but not playing.
PassedOver ==
    {patches[p].synth_name : p \in {q \in DOMAIN patches :
        /\ patches[q].synth_name \in DOMAIN synths
        /\ ~synths[patches[q].synth_name].is_playing}}

\* The mix step of a callback, keeping the history of who was passed over.
ResumeRender ==
    /\ MixAndAdvance
    /\ continuity' =
          [passed_over |-> PassedOver,
           resumed |-> {patches[p].synth_name :
                          p \in {q \in DOMAIN patches : Renders(q)}}
                       \cap continuity.passed_over]
    /\ UNCHANGED <<renderer, construction, threads, kept, to_process, runtime>>

\* paCallback returns paContinue: the mutex is released, the buffer goes to
\* the device and the locals are gone.
CallbackDone ==
    /\ pc = "mixed"
    /\ framesPerBuffer > 0
    /\ pc' = "idle"
    /\ framesPerBuffer' = 0
    /\ current_master_phase' = 0
    /\ current_master_volume' = 0
    /\ outputBuffer' = << >>
    /\ stray' = {}
    /\ starts' = {}
    /\ last' = "none"
    /\ purged' = {}
    /\ UNCHANGED <<synths, patches, synth_names_to_delete, patch_names_to_delete,
                   out, doomed>>
    /\ UNCHANGED <<master_phase, master_volume, volume_set>>
    /\ UNCHANGED outside_mixer

\* ------------------------------------------------- one render call alone

\* The playing synths a control thread can have set up: any table,
\* frequency, amplitude and phase offset.
RenderSynths ==
    {[NewSynth(t) EXCEPT !.is_playing = TRUE, !.frequency = f, !.amplitude = a,
                         !.phase_offset = o] :
        t \in RenderTables, f \in RenderFrequencies, a \in Amplitudes,
        o \in RenderOffsets}

\* The mix is about to render a synth and one that differs from it in its
\* phase offset only, both from the same master phase.
RenderJobs ==
    {[synth |-> s, other |-> [s EXCEPT !.phase_offset = o],
      frames |-> frames, master_phase_start |-> ToDouble(phase * Unit)] :
        s \in RenderSynths, o \in RenderOffsets, frames \in 1..MaxFrames,
        phase \in 0..MaxPhase}

InitRender ==
    /\ InitEngine
    /\ Constructed
    /\ job \in RenderJobs
    /\ rendered = [at |-> "pending", synth |-> << >>, other |-> << >>]

\* synth->render(mono_buffer.data(), framesPerBuffer, current_master_phase),
\* for the two synths.
RenderCall ==
    /\ rendered.at = "pending"
    /\ \E junk \in JunkSamples :
          rendered' =
              [at |-> "done",
               synth |-> Render(job.synth, job.frames, job.master_phase_start, junk),
               other |-> Render(job.other, job.frames, job.master_phase_start, junk)]
    /\ UNCHANGED <<job, used>>
    /\ UNCHANGED outside_renderer

\* ------------------------------------------- the two threads, step by step

\* The locking methods, had the two listings gone without the lock_guard.
LockingOpsButListings == {"get_or_create_synth", "get_or_create_patch",
                          "delete_synth", "delete_patch", "stop_all",
                          "set_master_volume", "get_master_volume"}

\* The methods that take engine_mutex_ (a lock_guard over the whole body).
LockingOps == {"get_or_create_synth", "get_or_create_patch", "delete_synth",
               "delete_patch", "list_synths", "list_patches", "stop_all",
               "set_master_volume", "get_master_volume"}
\* The Patch setters: plain assignments.
PatchSetters == {"set_synth_name", "set_channels"}

\* The calls the control thread makes in the thread specification: one synth
\* name, one patch name and one channel list, a patch rebound to either name.
Calls ==
    {Call("get_or_create_patch", "s1", "p1", <<0>>),
     Call("get_or_create_synth", "s1", "", << >>),
     Call("delete_synth", "s1", "", << >>),
     Call("delete_patch", "", "p1", << >>),
     Call("set_channels", "", "p1", <<0>>)}
    \cup {Call(op, "", "", << >>) : op \in {"list_synths", "list_patches", "stop_all",
                                            "get_master_volume"}}
    \cup {Call("set_synth_name", n, "p1", << >>) : n \in SynthNames}
    \cup {Call("start", "s1", "", << >>)}
    \cup {[Call("set_master_volume", "", "", << >>) EXCEPT !.volume = v] :
             v \in Volumes}

\* The control thread enters a method: a locking method goes for the mutex, a
\* Patch setter (on the handle of a registered patch) is in its body at once.
ControlCall(call) ==
    /\ ctl.at = "idle"
    /\ call.op \in PatchSetters => call.patch \in DOMAIN patches
    /\ call.op \in {"start", "update_wavetable"} => call.synth \in DOMAIN synths
    /\ call.op = "delete_synth" /\ call.synth \in DOMAIN synths =>
          /\ Len(synth_names_to_delete) < MaxSynthQueue
          /\ Len(patch_names_to_delete) + Len(BoundPatches(call.synth, 1))
                <= MaxPatchQueue
    /\ call.op = "delete_patch" /\ call.patch \in DOMAIN patches =>
          Len(patch_names_to_delete) < MaxPatchQueue
    /\ ctl' = [call EXCEPT !.at = IF call.op \in LockingOps \cup {"update_wavetable"}
                                  THEN "lock" ELSE "body"]
    /\ UNCHANGED <<engine_mutex, rt, registry_vars, mixer, offline, wavetable_mutex>>

\* One mutex for the wavetables of all synths.
SharedWavetableMutex(name) == "s1"

\* The wavetable_mutex_ that guards the wavetable of the synth `name`: its own.
WavetableMutexOf(name) == name

\* get_or_create_synth taking the synth's wavetable mutex before the engine's.
LockOrderTableFirst(call) ==
    IF call.op = "update_wavetable" THEN <<"wavetable">>
    ELSE IF call.op = "get_or_create_synth" /\ call.synth \in DOMAIN synths
    THEN <<"wavetable", "engine">>
    ELSE <<"engine">>

\* The mutexes a method locks, in the order it locks them: update_wavetable
\* its synth's wavetable_mutex_; get_or_create_synth engine_mutex_ and then,
\* in the update_wavetable it calls on a registered name, that synth's
\* wavetable_mutex_; every other locking method engine_mutex_.
LockOrder(call) ==
    IF call.op = "update_wavetable" THEN <<"wavetable">>
    ELSE IF call.op = "get_or_create_synth" /\ call.synth \in DOMAIN synths
    THEN <<"engine", "wavetable">>
    ELSE <<"engine">>

\* The control thread holds the mutex `lock` of the method it is in.
ControlHolds(lock) ==
    IF lock = "engine" THEN engine_mutex = "control"
    ELSE wavetable_mutex[WavetableMutexOf(ctl.synth)] = "control"

\* The next lock_guard of the method the control thread is in: on
\* engine_mutex_ or on a synth's wavetable_mutex_.  The thread goes on when
\* the mutex is free.
ControlLock ==
    /\ ctl.at = "lock"
    /\ LET order == LockOrder(ctl)
           pending == {i \in DOMAIN order : ~ControlHolds(order[i])}
           next == CHOOSE i \in pending : \A j \in pending : i <= j
       IN /\ pending # {}
          /\ IF order[next] = "wavetable"
             THEN /\ wavetable_mutex[WavetableMutexOf(ctl.synth)] = "free"
                  /\ wavetable_mutex' =
                        [wavetable_mutex EXCEPT
                            ![WavetableMutexOf(ctl.synth)] = "control"]
                  /\ UNCHANGED engine_mutex
             ELSE /\ engine_mutex = "free"
                  /\ engine_mutex' = "control"
                  /\ UNCHANGED wavetable_mutex
          /\ ctl' = [ctl EXCEPT !.at = IF next = Len(order) THEN "body"
                                                            ELSE "lock"]
    /\ UNCHANGED <<rt, registry_vars, mixer, offline>>

\* The body of the method the control thread is in, and its return: the
\* lock_guard, where there is one, releases the mutex.
ControlBody ==
    /\ ctl.at = "body"
    /\ ctl.op # "set_master_volume"
    /\ \/ /\ ctl.op = "get_or_create_synth"
          /\ \E t \in EngineTables : get_or_create_synth(ctl.synth, t)
       \/ /\ ctl.op = "get_or_create_patch"
          /\ get_or_create_patch(ctl.patch, ctl.synth, ctl.channels)
       \/ ctl.op = "delete_synth" /\ delete_synth(ctl.synth)
       \/ ctl.op = "delete_patch" /\ delete_patch(ctl.patch)
       \/ ctl.op = "stop_all" /\ stop_all
       \/ /\ ctl.op = "set_synth_name"
          /\ IF ctl.patch \in DOMAIN patches
             THEN set_synth_name(ctl.patch, ctl.synth)
             ELSE UNCHANGED registry_vars
       \/ /\ ctl.op = "set_channels"
          /\ IF ctl.patch \in DOMAIN patches
             THEN set_channels(ctl.patch, ctl.channels)
             ELSE UNCHANGED registry_vars
       \/ /\ ctl.op = "start"
          /\ synths' = IF ctl.synth \in DOMAIN synths
                       THEN [synths EXCEPT ![ctl.synth].is_playing = TRUE]
                       ELSE synths
          /\ last' = "none"
          /\ purged' = {}
          /\ UNCHANGED <<patches, synth_names_to_delete, patch_names_to_delete,
                         pc, out, doomed>>
       \/ /\ ctl.op = "update_wavetable"
          /\ \E t \in EngineTables :
                synths' = IF ctl.synth \in DOMAIN synths
                          THEN [synths EXCEPT ![ctl.synth] = update_wavetable(@, t)]
                          ELSE synths
          /\ last' = "none"
          /\ purged' = {}
          /\ UNCHANGED <<patches, synth_names_to_delete, patch_names_to_delete,
                         pc, out, doomed>>
       \/ /\ ctl.op \in {"list_synths", "list_patches", "get_master_volume"}
          /\ UNCHANGED registry_vars
    /\ engine_mutex' = IF ctl.op \in LockingOps THEN "free" ELSE engine_mutex
    /\ wavetable_mutex' =
          [n \in DOMAIN wavetable_mutex |->
              IF wavetable_mutex[n] = "control" THEN "free"
                                               ELSE wavetable_mutex[n]]
    /\ ctl' = NoCall
    /\ UNCHANGED <<rt, mixer, offline>>

\* The body of set_master_volume on the control thread, and its return.
ControlVolume ==
    /\ ctl.at = "body"
    /\ ctl.op = "set_master_volume"
    /\ set_master_volume(ctl.volume)
    /\ engine_mutex' = "free"
    /\ ctl' = NoCall
    /\ UNCHANGED <<rt, offline, wavetable_mutex>>

\* PortAudio calls paCallback, which calls _cleanup().
RtEnter ==
    /\ rt.at = "idle"
    /\ rt' = [rt EXCEPT !.at = "cleanup_lock"]
    /\ UNCHANGED <<engine_mutex, ctl, registry_vars, mixer, offline, wavetable_mutex>>

\* The lock_guard of _cleanup() and the one before the mix loop.
RtLock ==
    /\ rt.at \in {"cleanup_lock", "mix_lock"}
    /\ engine_mutex = "free"
    /\ engine_mutex' = "callback"
    /\ rt' = IF rt.at = "cleanup_lock" THEN [rt EXCEPT !.at = "cleanup"]
                                        ELSE [at |-> "mix", cursor |-> 1]
    /\ UNCHANGED <<ctl, registry_vars, mixer, offline, wavetable_mutex>>

\* _cleanup() runs and returns, releasing the mutex.
RtCleanup ==
    /\ rt.at = "cleanup"
    /\ cleanup
    /\ UNCHANGED <<pc, out>>
    /\ engine_mutex' = "free"
    /\ rt' = [rt EXCEPT !.at = "prepare"]
    /\ UNCHANGED <<ctl, mixer, offline, wavetable_mutex>>

\* fill_n, the mono buffer and the two atomic loads, outside the mutex.
RtPrepare ==
    /\ rt.at = "prepare"
    /\ rt' = [rt EXCEPT !.at = "mix_lock"]
    /\ UNCHANGED <<engine_mutex, ctl, registry_vars, mixer, offline, wavetable_mutex>>

\* The patch the mix loop is reading ("" when it is not reading one).
ReadingPatch ==
    IF rt.at = "mix" /\ rt.cursor \in 1..Len(PatchOrder)
           /\ PatchOrder[rt.cursor] \in DOMAIN patches
    THEN PatchOrder[rt.cursor] ELSE ""

\* One round of the mix loop: the patch at the cursor, if registered, is read
\* (synth name, channel list) and mixed.
RtMixPatch ==
    /\ rt.at = "mix"
    /\ rt.cursor <= Len(PatchOrder)
    /\ rt' = [rt EXCEPT !.cursor = @ + 1]
    /\ UNCHANGED <<engine_mutex, ctl, registry_vars, mixer, offline, wavetable_mutex>>

\* The synth of the patch at the cursor of the mix loop.
SynthAtCursor == patches[PatchOrder[rt.cursor]].synth_name

\* The mix loop passes over the patch at the cursor: it is not registered, or
\* its synth is not registered or not playing.
RtSkipPatch ==
    /\ rt.at = "mix"
    /\ rt.cursor <= Len(PatchOrder)
    /\ ~(PatchOrder[rt.cursor] \in DOMAIN patches /\ Renders(PatchOrder[rt.cursor]))
    /\ rt' = [rt EXCEPT !.cursor = @ + 1]
    /\ UNCHANGED <<engine_mutex, ctl, registry_vars, mixer, offline, wavetable_mutex>>

\* synth->render(...) opens: the lock_guard on the synth's wavetable_mutex_.
RtRenderLock ==
    /\ rt.at = "mix"
    /\ rt.cursor <= Len(PatchOrder)
    /\ PatchOrder[rt.cursor] \in DOMAIN patches
    /\ Renders(PatchOrder[rt.cursor])
    /\ wavetable_mutex[WavetableMutexOf(SynthAtCursor)] = "free"
    /\ wavetable_mutex' =
          [wavetable_mutex EXCEPT ![WavetableMutexOf(SynthAtCursor)] = "callback"]
    /\ rt' = [rt EXCEPT !.at = "render"]
    /\ UNCHANGED <<engine_mutex, ctl, registry_vars, mixer, offline>>

\* synth->render(...) returns, releasing the wavetable mutex, and the mono
\* buffer is mixed into the patch's channels.
RtRenderDone ==
    /\ rt.at = "render"
    /\ wavetable_mutex' =
          [wavetable_mutex EXCEPT ![WavetableMutexOf(SynthAtCursor)] = "free"]
    /\ rt' = [at |-> "mix", cursor |-> rt.cursor + 1]
    /\ UNCHANGED <<engine_mutex, ctl, registry_vars, mixer, offline>>

\* The loop is over: paCallback returns and its lock_guard releases the mutex.
RtReturn ==
    /\ rt.at = "mix"
    /\ rt.cursor > Len(PatchOrder)
    /\ engine_mutex' = "free"
    /\ rt' = [at |-> "idle", cursor |-> 0]
    /\ UNCHANGED <<ctl, registry_vars, mixer, offline, wavetable_mutex>>

\* ------------------------------------- the callback, frame by frame

\* The patch whose render is followed frame by frame: the first of the loop.
FramePatch == PatchOrder[1]

\* A render loop that loads the synth's parameters anew for every frame.
FrameInputsReloaded(name) == synths[name]

\* What a frame of render is computed from: the locals freq, amp and
\* sample_offset, loaded before the loop, and the member wavetable_.
FrameInputs(name) == [job.synth EXCEPT !.wavetable = synths[name].wavetable]

\* The mix loop, under the engine mutex, comes to a patch of a playing synth:
\* render takes the synth's wavetable mutex and loads frequency_, amplitude_
\* and phase_offset_ into its locals.
FramesOpen ==
    /\ pc = "loaded"
    /\ FramePatch \in DOMAIN patches
    /\ Renders(FramePatch)
    /\ LET name == patches[FramePatch].synth_name IN
       /\ wavetable_mutex[WavetableMutexOf(name)] = "free"
       /\ wavetable_mutex' =
             [wavetable_mutex EXCEPT ![WavetableMutexOf(name)] = "callback"]
       /\ job' = [synth |-> synths[name], other |-> synths[name],
                  frames |-> framesPerBuffer,
                  master_phase_start |-> current_master_phase]
    /\ rendered' = [at |-> "rendering", synth |-> << >>, other |-> << >>]
    /\ used' = << >>
    /\ pc' = "rendering"
    /\ last' = "none"
    /\ purged' = {}
    /\ UNCHANGED <<synths, patches, synth_names_to_delete, patch_names_to_delete,
                   out, doomed>>
    /\ UNCHANGED <<mixer, engine_mutex, ctl, rt, construction, continuity, kept,
                   to_process, runtime>>

\* One round of render's loop.
FrameRender ==
    /\ pc = "rendering"
    /\ Len(rendered.synth) < job.frames
    /\ LET name == patches[FramePatch].synth_name
           i == Len(rendered.synth) + 1
       IN /\ \E junk \in JunkSamples :
                rendered' =
                   [rendered EXCEPT !.synth =
                       Append(@, RenderFrame(FrameInputs(name),
                                             PhaseAt(job.master_phase_start, i),
                                             junk))]
          /\ used' = Append(used, FrameInputs(name))
    /\ UNCHANGED job
    /\ UNCHANGED <<registry_vars, mixer, threads, construction, continuity, kept,
                   to_process, runtime>>

\* render returns, releasing the wavetable mutex; the mono buffer is mixed
\* into the patch's channels and the master phase is stored.
FramesClose ==
    /\ pc = "rendering"
    /\ Len(rendered.synth) = job.frames
    /\ LET name == patches[FramePatch].synth_name
           mixed == MixChannels([buffer |-> outputBuffer, stray |-> {},
                                 starts |-> {current_master_phase}],
                                [i \in 1..job.frames |-> rendered.synth[i]],
                                patches[FramePatch].channels, 1)
       IN /\ outputBuffer' = mixed.buffer
          /\ stray' = mixed.stray
          /\ starts' = mixed.starts
          /\ wavetable_mutex' =
                [wavetable_mutex EXCEPT ![WavetableMutexOf(name)] = "free"]
    /\ master_phase' = AdvancedPhase(1)
    /\ rendered' = [at |-> "none", synth |-> << >>, other |-> << >>]
    /\ pc' = "mixed"
    /\ last' = "none"
    /\ purged' = {}
    /\ UNCHANGED <<job, used>>
    /\ UNCHANGED <<synths, patches, synth_names_to_delete, patch_names_to_delete,
                   out, doomed>>
    /\ UNCHANGED <<master_volume, framesPerBuffer, current_master_phase,
                   current_master_volume, volume_set>>
    /\ UNCHANGED <<engine_mutex, ctl, rt, construction, continuity, kept,
                   to_process, runtime>>

\* ----------------------------------------------------- the earlier engine

\* Synth::Synth(sample_rate) of the earlier engine: a sine oscillator.
EarlierSynth ==
    [is_playing |-> FALSE, frequency |-> DefaultFrequency,
     amplitude |-> DefaultAmplitude, phase |-> 0]

\* AudioEngine::synth(name), under the engine mutex: the synth of that name,
\* created if there is none.
synth(name) ==
    /\ EngineLockFree
    /\ synths' = IF name \in DOMAIN synths THEN synths
                 ELSE Put(synths, name, EarlierSynth)
    /\ UNCHANGED <<patches, synth_names_to_delete, patch_names_to_delete, pc,
                   out, last, doomed, purged>>
    /\ UNCHANGED others

\* AudioEngine::patch(patch_name, synth_name, channels), under the engine
\* mutex: it throws when no synth has the name, returns the patch of that
\* name as it is when there is one, and creates it otherwise.
patch(patch_name, synth_name, channels) ==
    /\ EngineLockFree
    /\ patches' = IF synth_name \in DOMAIN synths /\ patch_name \notin DOMAIN patches
                  THEN Put(patches, patch_name, NewPatch(synth_name, channels))
                  ELSE patches
    /\ UNCHANGED <<synths, synth_names_to_delete, patch_names_to_delete, pc,
                   out, last, doomed, purged>>
    /\ UNCHANGED others

\* The earlier delete_synth(name): the name is queued, whatever it is.
EarlierDeleteSynth(name) ==
    /\ EngineLockFree
    /\ Len(synth_names_to_delete) < MaxSynthQueue
    /\ synth_names_to_delete' = Append(synth_names_to_delete, name)
    /\ UNCHANGED <<synths, patches, patch_names_to_delete, pc, out, last, doomed,
                   purged>>
    /\ UNCHANGED others

\* The earlier delete_patch(name): the name is queued, whatever it is.
EarlierDeletePatch(name) ==
    /\ EngineLockFree
    /\ Len(patch_names_to_delete) < MaxPatchQueue
    /\ patch_names_to_delete' = Append(patch_names_to_delete, name)
    /\ UNCHANGED <<synths, patches, synth_names_to_delete, pc, out, last, doomed,
                   purged>>
    /\ UNCHANGED others

\* The earlier _cleanup(), first lock_guard: it returns when both queues
\* are empty and otherwise swaps them into its locals.
EarlierCleanupSwap ==
    /\ pc = "idle"
    /\ IF synth_names_to_delete = << >> /\ patch_names_to_delete = << >>
       THEN /\ pc' = "cleaned"
            /\ UNCHANGED to_process
       ELSE /\ pc' = "swapped"
            /\ to_process' = [synths |-> synth_names_to_delete,
                              patches |-> patch_names_to_delete]
    /\ synth_names_to_delete' = << >>
    /\ patch_names_to_delete' = << >>
    /\ UNCHANGED <<synths, patches, out, last, doomed, purged>>
    /\ UNCHANGED <<mixer, threads, renderer, construction, continuity, kept,
                   runtime>>

\* A cleanup that erases the queued patches only.
EarlierCleanedPatchesQueuedOnly == EraseAll(patches, to_process.patches)

\* The patches the earlier _cleanup() leaves: neither queued nor, when it
\* comes to a queued synth, bound to it.
EarlierCleanedPatches ==
    [p \in {q \in DOMAIN patches \ Range(to_process.patches) :
               patches[q].synth_name \notin Range(to_process.synths)}
     |-> patches[p]]

\* The earlier _cleanup(), second lock_guard: the queued patches are erased,
\* then every queued synth with the patches bound to it.
EarlierCleanupApply ==
    /\ pc = "swapped"
    /\ patches' = EarlierCleanedPatches
    /\ synths' = EraseAll(synths, to_process.synths)
    /\ to_process' = [synths |-> << >>, patches |-> << >>]
    /\ pc' = "cleaned"
    /\ UNCHANGED <<synth_names_to_delete, patch_names_to_delete, out, last,
                   doomed, purged>>
    /\ UNCHANGED <<mixer, threads, renderer, construction, continuity, kept,
                   runtime>>

\* ------------------------------------------------------- the constructor

\* The constructor is entered with any device index and channel count.
InitConstruct ==
    /\ InitEngine
    /\ job = [synth |-> NewSynth(<< >>), other |-> NewSynth(<< >>),
              frames |-> 0, master_phase_start |-> 0]
    /\ rendered = [at |-> "none", synth |-> << >>, other |-> << >>]
    /\ \E deviceIndex \in -1..(Len(DeviceMaxOutputChannels) + 1),
          numChannels \in -1..(2 * NumOutputChannels + 2) :
          ctor = Construction(deviceIndex, numChannels, "device", "")
    /\ stream_ = "null"

\* The constructor throws: it goes no further, and ~AudioEngine never runs.
Throw(error) == ctor' = [ctor EXCEPT !.at = "failed", !.error = error]

\* The channel test, had it let one channel too many through.
ExceedsDeviceByTwo(numChannels, deviceIndex) ==
    numChannels > MaxOutputChannels(deviceIndex) + 1

\* numChannels > deviceInfo->maxOutputChannels
ExceedsDevice(numChannels, deviceIndex) ==
    numChannels > MaxOutputChannels(deviceIndex)

\* Pa_GetDeviceInfo and the null test.
CtorDevice ==
    /\ ctor.at = "device"
    /\ IF DeviceResolves(ctor.device_index)
       THEN ctor' = [ctor EXCEPT !.at = "channels"]
       ELSE Throw("Invalid device index")
    /\ UNCHANGED stream_
    /\ UNCHANGED outside_construction

\* The channel-count test.
CtorChannels ==
    /\ ctor.at = "channels"
    /\ IF ExceedsDevice(ctor.num_channels, ctor.device_index)
       THEN Throw("Device does not support requested number of output channels")
       ELSE ctor' = [ctor EXCEPT !.at = "open"]
    /\ UNCHANGED stream_
    /\ UNCHANGED outside_construction

\* Pa_OpenStream under pa_check_error: PortAudio opens the stream or reports
\* an error.
CtorOpen ==
    /\ ctor.at = "open"
    /\ \/ /\ stream_' = "open"
          /\ ctor' = [ctor EXCEPT !.at = "start"]
       \/ /\ UNCHANGED stream_
          /\ Throw("Failed to open PortAudio stream")
    /\ UNCHANGED outside_construction

\* Pa_StartStream under pa_check_error: PortAudio starts the stream or reports
\* an error; the constructor then returns.
CtorStart ==
    /\ ctor.at = "start"
    /\ \/ /\ stream_' = "started"
          /\ ctor' = [ctor EXCEPT !.at = "constructed"]
       \/ /\ UNCHANGED stream_
          /\ Throw("Failed to start PortAudio stream")
    /\ UNCHANGED outside_construction

\* ~AudioEngine(), which runs for a constructed engine only: an engine whose
\* constructor threw is never destroyed.
Dtor ==
    /\ ctor.at = "constructed"
    /\ stream_' = IF stream_ # "null" THEN "null" ELSE stream_
    /\ ctor' = [ctor EXCEPT !.at = "destroyed"]
    /\ UNCHANGED outside_construction

\* ------------------------------------------------- the performance script

\* The frequencies a script smooths to.
SmoothFrequencies == {DefaultFrequency, 220, 441}

\* smoothFreq(synth, freq), where the first time.time() returns
\* time_in_formula and the second time_stored.
smoothFreq(freq, time_in_formula, time_stored) ==
    LET oldFreq == script.freq
        oldPhase == script.phase
        newPhase == oldFreq * script.lastTime + oldPhase - freq * time_in_formula
    IN script' = [lastTime |-> time_stored, freq |-> freq, phase |-> newPhase,
                  t_now |-> time_in_formula]

\* A call of smoothFreq: the clock does not run backwards, and may or may not
\* advance between the two readings.
SmoothFreq(freq) ==
    /\ \E time_in_formula \in script.lastTime..MaxTime :
          \E time_stored \in time_in_formula..MaxTime :
             smoothFreq(freq, time_in_formula, time_stored)
    /\ UNCHANGED control
    /\ UNCHANGED engine

\* -------------------------------------------------------------- Control

\* Control.register_callback(id, fn): fn is the callback under id from now on.
register_callback(id, fn) ==
    /\ control' = [control EXCEPT !.callbacks = Put(@, id, fn)]
    /\ UNCHANGED script
    /\ UNCHANGED engine

\* update, had it stopped after the first callback.
update_first_only(new_value) ==
    /\ \E order \in [1..Cardinality(DOMAIN control.callbacks) ->
                        DOMAIN control.callbacks] :
          /\ \A i, j \in DOMAIN order : order[i] = order[j] => i = j
          /\ control' = [control EXCEPT
                !.value = new_value,
                !.calls = [i \in DOMAIN order \cap {1} |->
                             [id |-> order[i], fn |-> control.callbacks[order[i]],
                              arg |-> new_value]]]
    /\ UNCHANGED script
    /\ UNCHANGED engine

\* Control.update(new_value): the value is stored and every registered
\* callback is called with it, in an order the caller cannot choose.
update(new_value) ==
    /\ \E order \in [1..Cardinality(DOMAIN control.callbacks) ->
                        DOMAIN control.callbacks] :
          /\ \A i, j \in DOMAIN order : order[i] = order[j] => i = j
          /\ control' = [control EXCEPT
                !.value = new_value,
                !.calls = [i \in DOMAIN order |->
                             [id |-> order[i], fn |-> control.callbacks[order[i]],
                              arg |-> new_value]]]
    /\ UNCHANGED script
    /\ UNCHANGED engine

\* ---------------------------------------------------------- specifications

\* The registry under deletion: engine calls, patch setters, play state and
\* wavetable updates, interleaved with the callback.
Next ==
    \/ \E n \in SynthNames, t \in EngineTables : GetOrCreateSynth(n, t)
    \/ \E p \in PatchNames, n \in SynthNames, ch \in ChannelLists :
          GetOrCreatePatch(p, n, ch)
    \/ \E n \in SynthNames : DeleteSynth(n)
    \/ \E p \in PatchNames : DeletePatch(p)
    \/ StopAll
    \/ \E p \in PatchNames, n \in SynthNames : SetSynthName(p, n)
    \/ \E p \in PatchNames, ch \in ChannelLists : SetChannels(p, ch)
    \/ \E n \in SynthNames : Start(n)
    \/ \E n \in SynthNames : Stop(n)
    \/ CallbackCleanup
    \/ CallbackMix
    \/ CallbackReturn

Spec == Init /\ [][Next]_vars

\* One engine's synths and their parameters, without deletion.
NextSynth ==
    \/ \E n \in SynthNames, t \in Tables : GetOrCreateSynth(n, t)
    \/ \E n \in SynthNames : Start(n)
    \/ \E n \in SynthNames : Stop(n)
    \/ \E n \in SynthNames, f \in Frequencies : SetFrequency(n, f)
    \/ \E n \in SynthNames, a \in Amplitudes : SetAmplitude(n, a)
    \/ \E n \in SynthNames, o \in PhaseOffsets : SetPhaseOffset(n, o)
    \/ \E n \in SynthNames, t \in Tables : UpdateWavetable(n, t)
    \/ StopAll

SpecSynth == Init /\ [][NextSynth]_vars

\* The mixer: synths and patches are created, started and stopped and the
\* master volume is set while callbacks of one or more frames run.
NextMix ==
    \/ \E n \in SynthNames, t \in MixTables : GetOrCreateSynth(n, t)
    \/ \E p \in PatchNames, n \in SynthNames, ch \in MixChannelLists :
          GetOrCreatePatch(p, n, ch)
    \/ \E n \in SynthNames : Start(n)
    \/ \E n \in SynthNames : Stop(n)
    \/ \E v \in MixVolumes : SetMasterVolume(v)
    \/ StopAll
    \/ \E frames \in 1..MaxFrames : CallbackBegin(frames)
    \/ CallbackLoad
    \/ CallbackRender
    \/ CallbackDone

SpecMix == Init /\ [][NextMix]_vars

\* Synths stopped and started again between callbacks.
NextResume ==
    \/ \E n \in SynthNames, t \in MixTables : GetOrCreateSynth(n, t)
    \/ \E p \in PatchNames, n \in SynthNames : GetOrCreatePatch(p, n, <<0>>)
    \/ \E n \in SynthNames : Start(n)
    \/ \E n \in SynthNames : Stop(n)
    \/ \E frames \in 1..MaxFrames : CallbackBegin(frames)
    \/ CallbackLoad
    \/ ResumeRender
    \/ CallbackDone

SpecResume == Init /\ [][NextResume]_vars

\* Successive smoothed frequency changes.
NextSmooth == \E freq \in SmoothFrequencies : SmoothFreq(freq)

SpecSmooth == Init /\ [][NextSmooth]_vars

\* One Control, its callbacks registered and replaced between updates.
NextControl ==
    \/ \E id \in {"s1_freq", "s1_amp"}, fn \in {"s1.freq", "s1.amp", "s2.freq"} :
          register_callback(id, fn)
    \/ \E new_value \in {0, 440, 880} : update(new_value)

SpecControl == Init /\ [][NextControl]_vars

\* Render calls on synths of every table, frequency, amplitude and offset.
NextRender == RenderCall

SpecRender == InitRender /\ [][NextRender]_vars

\* The control thread and the realtime thread, one step at a time.
NextThreads ==
    \/ \E call \in Calls : ControlCall(call)
    \/ ControlLock
    \/ ControlBody
    \/ ControlVolume
    \/ RtEnter
    \/ RtLock
    \/ RtCleanup
    \/ RtPrepare
    \/ RtMixPatch
    \/ RtReturn

SpecThreads == Init /\ [][NextThreads]_vars

\* Wavetables replaced while the callback renders two synths, render by
\* render.
NextWavetable ==
    \/ \E call \in {Call("get_or_create_synth", "s1", "", << >>),
                     Call("get_or_create_synth", "s2", "", << >>),
                     Call("get_or_create_patch", "s1", "p1", <<0>>),
                     Call("get_or_create_patch", "s2", "p2", <<0>>),
                     Call("start", "s1", "", << >>),
                     Call("start", "s2", "", << >>),
                     Call("update_wavetable", "s1", "", << >>)} :
          ControlCall(call)
    \/ ControlLock
    \/ ControlBody
    \/ RtEnter
    \/ RtLock
    \/ RtCleanup
    \/ RtPrepare
    \/ RtSkipPatch
    \/ RtRenderLock
    \/ RtRenderDone
    \/ RtReturn

SpecWavetable == Init /\ [][NextWavetable]_vars

\* Deletions queued around callbacks that keep occurring: PortAudio calls
\* paCallback once per buffer for as long as the stream runs, and no call of
\* the control thread holds the engine mutex for ever.
NextQueue ==
    \/ \E n \in SynthNames, t \in EngineTables : GetOrCreateSynth(n, t)
    \/ \E p \in PatchNames, n \in SynthNames : GetOrCreatePatch(p, n, <<0>>)
    \/ \E n \in SynthNames : DeleteSynth(n)
    \/ \E p \in PatchNames : DeletePatch(p)
    \/ CallbackCleanup
    \/ CallbackMix
    \/ CallbackReturn

SpecQueue ==
    /\ Init
    /\ [][NextQueue]_vars
    /\ WF_vars(CallbackCleanup)
    /\ WF_vars(CallbackMix)
    /\ WF_vars(CallbackReturn)


\* The mix of synths of different loudness (constant tables of 1 and of 16)
\* through patches that name channel 0 once or twice.
NextOrder ==
    \/ \E n \in SynthNames, t \in {<<1>>, <<16>>} : GetOrCreateSynth(n, t)
    \/ \E p \in PatchNames, n \in SynthNames, ch \in {<<0>>, <<0, 0>>} :
          GetOrCreatePatch(p, n, ch)
    \/ \E n \in SynthNames : Start(n)
    \/ \E frames \in 1..MaxFrames : CallbackBegin(frames)
    \/ CallbackLoad
    \/ CallbackRender
    \/ CallbackDone

SpecOrder == Init /\ [][NextOrder]_vars


\* Callbacks over patches of playing synths, of stopped synths and of names
\* that no synth has.
NextSilence ==
    \/ \E n \in SynthNames, t \in MixTables : GetOrCreateSynth(n, t)
    \/ \E p \in PatchNames, n \in SynthNames, ch \in {<<0>>, <<-1, 1>>} :
          GetOrCreatePatch(p, n, ch)
    \/ \E p \in PatchNames, n \in SynthNames : SetSynthName(p, n)
    \/ \E n \in SynthNames : Start(n)
    \/ \E n \in SynthNames : Stop(n)
    \/ \E frames \in 1..MaxFrames : CallbackBegin(frames)
    \/ CallbackLoad
    \/ CallbackRender
    \/ CallbackDone

SpecSilence == Init /\ [][NextSilence]_vars


\* A script run again and again: the same names are deleted and declared
\* between callbacks.
NextDeclare ==
    \/ \E n \in SynthNames, t \in EngineTables : GetOrCreateSynthReturns(n, t)
    \/ \E p \in PatchNames, n \in SynthNames :
          GetOrCreatePatchReturns(p, n, <<0>>)
    \/ \E n \in SynthNames : DeleteSynthCalled(n)
    \/ \E p \in PatchNames : DeletePatchCalled(p)
    \/ CallbackCleanup
    \/ CallbackMix
    \/ CallbackReturn

SpecDeclare == Init /\ [][NextDeclare]_vars


\* The control thread's locking calls against the callback's cleanup and
\* renders.  A thread that is not waiting for a mutex goes on, and a thread
\* that waits for a mutex that is free again and again gets it.
NextLocks ==
    \/ \E call \in {Call("get_or_create_synth", "s1", "", << >>),
                     Call("update_wavetable", "s1", "", << >>),
                     Call("get_or_create_patch", "s1", "p1", <<0>>),
                     Call("start", "s1", "", << >>),
                     Call("delete_synth", "s1", "", << >>),
                     Call("delete_patch", "", "p1", << >>),
                     Call("list_synths", "", "", << >>),
                     Call("list_patches", "", "", << >>),
                     Call("stop_all", "", "", << >>),
                     Call("set_master_volume", "", "", << >>)} :
          ControlCall(call)
    \/ ControlLock
    \/ ControlBody
    \/ ControlVolume
    \/ RtEnter
    \/ RtLock
    \/ RtCleanup
    \/ RtPrepare
    \/ RtSkipPatch
    \/ RtRenderLock
    \/ RtRenderDone
    \/ RtReturn

SpecLocks ==
    /\ Init
    /\ [][NextLocks]_vars
    /\ SF_vars(ControlLock)
    /\ WF_vars(ControlBody)
    /\ WF_vars(ControlVolume)
    /\ SF_vars(RtLock)
    /\ WF_vars(RtCleanup)
    /\ WF_vars(RtPrepare)
    /\ WF_vars(RtSkipPatch)
    /\ SF_vars(RtRenderLock)
    /\ WF_vars(RtRenderDone)
    /\ WF_vars(RtReturn)


\* The setters of one synth and of the master volume against a callback
\* that renders the synth frame by frame.  The mix loop holds the engine
\* mutex, which the engine's methods wait for, and render holds the synth's
\* wavetable mutex, which update_wavetable waits for.
NextFrames ==
    \/ /\ pc # "rendering"
       /\ GetOrCreateSynth("s1", <<1, 3>>)
    \/ /\ pc # "rendering"
       /\ GetOrCreatePatch(FramePatch, "s1", <<0>>)
    \/ Start("s1")
    \/ SetFrequency("s1", 220)
    \/ SetAmplitude("s1", 10)
    \/ SetPhaseOffset("s1", Unit \div 4)
    \/ /\ wavetable_mutex[WavetableMutexOf("s1")] = "free"
       /\ UpdateWavetable("s1", <<3>>)
    \/ /\ pc # "rendering"
       /\ \E v \in MixVolumes : SetMasterVolume(v)
    \/ \E frames \in 1..MaxFrames : CallbackBegin(frames)
    \/ CallbackLoad
    \/ /\ ~(FramePatch \in DOMAIN patches /\ Renders(FramePatch))
       /\ CallbackRender
    \/ FramesOpen
    \/ FrameRender
    \/ FramesClose
    \/ CallbackDone

SpecFrames == Init /\ [][NextFrames]_vars


\* The earlier engine: synths and patches created and deleted by name
\* around its callbacks.
NextEarlier ==
    \/ \E n \in SynthNames : synth(n)
    \/ \E p \in PatchNames, n \in SynthNames : patch(p, n, <<0>>)
    \/ \E n \in SynthNames : EarlierDeleteSynth(n)
    \/ \E p \in PatchNames : EarlierDeletePatch(p)
    \/ \E n \in SynthNames : Start(n)
    \/ EarlierCleanupSwap
    \/ EarlierCleanupApply
    \/ CallbackMix
    \/ CallbackReturn

SpecEarlier == Init /\ [][NextEarlier]_vars


\* One construction, step by step.
NextConstruct ==
    \/ CtorDevice
    \/ CtorChannels
    \/ CtorOpen
    \/ CtorStart
    \/ Dtor

SpecConstruct == InitConstruct /\ [][NextConstruct]_vars

\* ------------------------------------------------------------ properties

\* The step that is the callback's _cleanup().
CleanupStep == pc = "idle" /\ pc' = "cleaned"
\* The step that is the callback's mix loop.
MixStep == pc = "cleaned" /\ pc' = "mixed"

\* The patches that were accumulated into some channel of a buffer.
Contributors(buf) == UNION {Range(buf[c]) : c \in Channels}

IsPrefix(a, b) == Len(a) <= Len(b) /\ SubSeq(b, 1, Len(a)) = a

\* The engine state a control-thread call can touch.
Registry == <<synths, patches, synth_names_to_delete, patch_names_to_delete>>

\* C1: whenever a cleanup removes a synth, no patch that is still registered
\* after that cleanup is bound to the removed synth's name.
C1_NoDanglingPatchAfterCleanup ==
    [][CleanupStep =>
         \A s \in DOMAIN synths \ DOMAIN synths' :
            \A p \in DOMAIN patches' : patches'[p].synth_name # s]_vars

\* C2: the cleanup of the first callback after delete_synth(s) returned leaves
\* neither s nor any patch that was bound to s at that call registered, and a
\* name is registered again only by a later get_or_create call.
C2_DeletedSynthAndItsPatchesGone ==
    [][/\ CleanupStep =>
            \A x \in doomed : x \notin DOMAIN synths' /\ x \notin DOMAIN patches'
       /\ \/ DOMAIN synths' \subseteq DOMAIN synths
          \/ \E n \in SynthNames, t \in EngineTables : GetOrCreateSynth(n, t)
       /\ \/ DOMAIN patches' \subseteq DOMAIN patches
          \/ \E p \in PatchNames, n \in SynthNames, ch \in ChannelLists :
                GetOrCreatePatch(p, n, ch)]_vars

\* C2 witness: a cleanup has just applied a delete_synth of a synth that had two
\* patches bound, and none of the three is registered.
C2_Witness ==
    /\ pc = "cleaned"
    /\ purged \cap SynthNames # {}
    /\ Cardinality(purged \cap PatchNames) = 2
    /\ purged \cap (DOMAIN synths \cup DOMAIN patches) = {}

\* C3 as stated: while s waits in the synth deletion queue, no mix accumulates
\* a patch bound to s.
C3_NoContributionInInterim ==
    [][MixStep =>
         \A p \in Contributors(out') :
            patches[p].synth_name \notin Range(synth_names_to_delete)]_vars

\* C3 amended: every cleanup removes each synth whose delete_synth has returned,
\* so a mix accumulates only patches whose synth is registered and playing, and
\* a synth still waiting for deletion at a mix was deleted after the cleanup of
\* that same callback.
C3_InterimOnlyWithinOneCallback ==
    [][/\ CleanupStep =>
            /\ Range(synth_names_to_delete) \cap DOMAIN synths' = {}
            /\ synth_names_to_delete' = << >>
       /\ MixStep =>
            \A p \in Contributors(out') :
               LET s == patches[p].synth_name IN
               /\ s \in DOMAIN synths
               /\ synths[s].is_playing
               /\ s \in Range(synth_names_to_delete) => s \in doomed]_vars

\* C3 witness: a callback has mixed a patch whose synth was deleted after that
\* callback's cleanup and is still waiting in the queue.
C3_Witness ==
    /\ pc = "mixed"
    /\ \E p \in Contributors(out) \cap DOMAIN patches :
          /\ patches[p].synth_name \in Range(synth_names_to_delete)
          /\ patches[p].synth_name \in doomed

\* C4: only the cleanup step removes an entry of the synth map or the patch map;
\* delete_synth and delete_patch leave both maps as they are and only append to
\* the queues.
C4_RemovalOnlyInCleanup ==
    [][/\ (DOMAIN synths \subseteq DOMAIN synths'
            /\ DOMAIN patches \subseteq DOMAIN patches') \/ CleanupStep
       /\ \A n \in SynthNames :
            DeleteSynth(n) =>
               /\ UNCHANGED <<synths, patches>>
               /\ IsPrefix(synth_names_to_delete, synth_names_to_delete')
               /\ IsPrefix(patch_names_to_delete, patch_names_to_delete')
       /\ \A p \in PatchNames :
            DeletePatch(p) =>
               /\ UNCHANGED <<synths, patches, synth_names_to_delete>>
               /\ IsPrefix(patch_names_to_delete, patch_names_to_delete')]_vars

\* C4 witness: delete_synth has just queued a synth with a bound patch, no
\* callback has run since, and both names are still listed.
C4_Witness ==
    /\ last = "delete_synth:queued"
    /\ pc = "idle"
    /\ \E n \in Range(synth_names_to_delete) : n \in list_synths
    /\ \E p \in Range(patch_names_to_delete) : p \in list_patches

\* C5: get_or_create_patch with an unregistered synth name raises UnknownSynth
\* and changes nothing; with a registered synth name it succeeds and the patch
\* is registered.
C5_UnknownSynthChangesNothing ==
    [][\A p \in PatchNames, n \in SynthNames, ch \in ChannelLists :
         GetOrCreatePatch(p, n, ch) =>
            IF n \notin DOMAIN synths
            THEN /\ last' = "get_or_create_patch:UnknownSynth"
                 /\ UNCHANGED Registry
            ELSE /\ last' # "get_or_create_patch:UnknownSynth"
                 /\ p \in DOMAIN patches']_vars

\* C5 witness: the call has just failed while a patch is registered and a
\* deletion is queued.
C5_Witness ==
    /\ last = "get_or_create_patch:UnknownSynth"
    /\ DOMAIN patches # {}
    /\ patch_names_to_delete # << >>

\* What get_or_create_synth leaves alone on a registered synth.
SameButTable(a, b) ==
    /\ a.is_playing = b.is_playing
    /\ a.frequency = b.frequency
    /\ a.amplitude = b.amplitude
    /\ a.phase_offset = b.phase_offset

\* C6 as stated: on a registered name the names and the synth's play state,
\* frequency, amplitude and phase offset stay and a non-empty table replaces the
\* wavetable; on a new name a synth with exactly the given table is registered.
C6_GetOrCreateSynthAsStated ==
    [][\A n \in SynthNames, t \in Tables :
         GetOrCreateSynth(n, t) =>
            IF n \in DOMAIN synths
            THEN /\ last' = "get_or_create_synth:existing"
                 /\ DOMAIN synths' = DOMAIN synths
                 /\ SameButTable(synths'[n], synths[n])
                 /\ t # << >> => synths'[n].wavetable = t
            ELSE /\ n \in DOMAIN synths'
                 /\ synths'[n].wavetable = t]_vars

\* C6 amended: as stated, except that a new synth given an empty table holds
\* the single sample 0.
C6_GetOrCreateSynth ==
    [][\A n \in SynthNames, t \in Tables :
         GetOrCreateSynth(n, t) =>
            IF n \in DOMAIN synths
            THEN /\ last' = "get_or_create_synth:existing"
                 /\ DOMAIN synths' = DOMAIN synths
                 /\ SameButTable(synths'[n], synths[n])
                 /\ t # << >> => synths'[n].wavetable = t
            ELSE /\ n \in DOMAIN synths'
                 /\ synths'[n].wavetable =
                       IF t = << >> THEN <<SilentSample>> ELSE t]_vars

\* C6 witness: the call has just returned a registered synth that is playing
\* with non-default parameters, and another synth, created from an empty table,
\* holds the single silent sample.
C6_Witness ==
    /\ last = "get_or_create_synth:existing"
    /\ \E n \in DOMAIN synths :
          /\ synths[n].is_playing
          /\ synths[n].frequency # DefaultFrequency
          /\ synths[n].amplitude # DefaultAmplitude
          /\ synths[n].phase_offset # DefaultPhaseOffset
          /\ synths[n].wavetable = <<2, 3>>
    /\ \E n \in DOMAIN synths : synths[n].wavetable = <<SilentSample>>

\* C7: get_or_create_patch with a registered synth leaves the named patch bound
\* to exactly that synth and those channels, touches no other patch, keeps the
\* set of patch names when the patch was registered and adds the name otherwise.
C7_GetOrCreatePatchReplaces ==
    [][\A p \in PatchNames, n \in SynthNames, ch \in ChannelLists :
         (GetOrCreatePatch(p, n, ch) /\ n \in DOMAIN synths) =>
            /\ DOMAIN patches' = DOMAIN patches \cup {p}
            /\ patches'[p] = [synth_name |-> n, channels |-> ch]
            /\ \A q \in DOMAIN patches \ {p} : patches'[q] = patches[q]
            /\ last' = IF p \in DOMAIN patches THEN "get_or_create_patch:existing"
                                             ELSE "get_or_create_patch:created"]_vars

\* C7 witness: the call has just overwritten a registered patch, while the other
\* patch holds the other channel list.
C7_Witness ==
    /\ last = "get_or_create_patch:existing"
    /\ \E p, q \in DOMAIN patches :
          /\ patches[p].channels = <<1, NumOutputChannels>>
          /\ patches[q].channels = <<0>>
          /\ patches[p].synth_name # patches[q].synth_name

\* C8: delete_synth and delete_patch of an unregistered name raise nothing and
\* leave both maps and both queues as they are.
C8_DeleteUnknownIsNoOp ==
    [][/\ \A n \in SynthNames :
            (DeleteSynth(n) /\ n \notin DOMAIN synths) =>
               (UNCHANGED Registry /\ last' = "delete_synth:unknown")
       /\ \A p \in PatchNames :
            (DeletePatch(p) /\ p \notin DOMAIN patches) =>
               (UNCHANGED Registry /\ last' = "delete_patch:unknown")]_vars

\* C8 witness: delete_synth of an unregistered name has just returned while a
\* synth and a patch are registered and deletions are queued.
C8_Witness ==
    /\ last = "delete_synth:unknown"
    /\ DOMAIN synths # {}
    /\ DOMAIN patches # {}
    /\ synth_names_to_delete # << >>
    /\ patch_names_to_delete # << >>

\* C9: every registered synth's wavetable has at least one sample.
C9_WavetableNeverEmpty ==
    \A n \in DOMAIN synths : Len(synths[n].wavetable) >= 1

\* C9 witness: update_wavetable has just been given an empty table, on an
\* engine holding a synth that was created from an empty table.
C9_Witness ==
    /\ last = "update_wavetable:empty"
    /\ \E n \in DOMAIN synths : synths[n].wavetable = <<SilentSample>>

\* C10: update_wavetable with an empty table changes no synth; with a non-empty
\* table the synth's wavetable is exactly that table and nothing else changes.
C10_UpdateWavetable ==
    [][\A n \in SynthNames, t \in Tables :
         UpdateWavetable(n, t) =>
            /\ DOMAIN synths' = DOMAIN synths
            /\ \A m \in DOMAIN synths \ {n} : synths'[m] = synths[m]
            /\ SameButTable(synths'[n], synths[n])
            /\ synths'[n].wavetable = IF t = << >> THEN synths[n].wavetable ELSE t
            /\ last' \in {"update_wavetable:empty", "update_wavetable:replaced"}]_vars

\* C10 witness: update_wavetable has just been given an empty table and the
\* synth still holds its two-sample table.
C10_Witness ==
    /\ last = "update_wavetable:empty"
    /\ \E n \in DOMAIN synths : synths[n].wavetable = <<2, 3>>

\* ------------------------------------------------- master phase and mix

\* The step that is the callback's mix and its store of the master phase.
RenderStep == pc = "loaded" /\ pc' = "mixed"

\* The patches the mix renders: their synth is registered and playing.
Rendering == {p \in DOMAIN patches : Renders(p)}

\* C11: the master phase starts at 0 and never decreases; the mix step of a
\* callback adds exactly that callback's frame count to it, whatever is
\* registered or playing, and no other step changes it; every render call of
\* one callback is handed the master phase the callback began with.
C11_MasterPhase ==
    /\ master_phase = 0
    /\ [][/\ master_phase' >= master_phase
          /\ RenderStep => /\ master_phase' = master_phase + framesPerBuffer * Unit
                           /\ starts' \subseteq {master_phase}
                           /\ Rendering # {} => starts' = {master_phase}
          /\ ~RenderStep => master_phase' = master_phase]_vars

\* A second callback has mixed two playing synths, after a first of one frame.
C11_Witness ==
    /\ pc = "mixed"
    /\ framesPerBuffer = 1
    /\ master_phase = 2 * Unit
    /\ starts = {Unit}
    /\ \E p, q \in Rendering : patches[p].synth_name # patches[q].synth_name

\* ------------------------------------------------------------- rendering

\* The size of the table the render call reads.
TableSize == Len(job.synth.wavetable)

\* C15: at every frame render computes a wrapped position in [0, N) and
\* reads the two table entries i0 = floor(position) and i1 = (i0 + 1) mod N,
\* both of them indices of the table.
C15_RenderInsideTable ==
    rendered.at = "done" =>
        \A i \in 1..job.frames :
            LET frame == rendered.synth[i] IN
            /\ 0 <= frame.phase_wrapped
            /\ frame.phase_wrapped < TableSize * Unit
            /\ frame.i0 = frame.phase_wrapped \div Unit
            /\ frame.i0 \in 0..(TableSize - 1)
            /\ frame.i1 = (frame.i0 + 1) % TableSize
            /\ frame.val0 = Sample(job.synth.wavetable[frame.i0 + 1])
            /\ frame.val1 = Sample(job.synth.wavetable[frame.i1 + 1])

Occurrences(c, channels) == Cardinality({k \in 1..Len(channels) : channels[k] = c})

\* The sample the synth of patch p renders for a frame (0-based) of the
\* callback in progress.
RenderedSample(p, frame) ==
    Render(synths[patches[p].synth_name], framesPerBuffer,
           current_master_phase, 0)[frame + 1].mono_out

\* The sum, over the rendering patches from the i-th name on and over the
\* occurrences of c in their channel lists, of the rendered samples.
RECURSIVE SumOfSamples(_, _, _)
SumOfSamples(i, frame, c) ==
    IF i > Len(PatchOrder) THEN 0
    ELSE LET p == PatchOrder[i] IN
         (IF p \in Rendering
          THEN Occurrences(c, patches[p].channels) * RenderedSample(p, frame)
          ELSE 0) + SumOfSamples(i + 1, frame, c)

\* C13: the mix leaves in every frame of every channel c the master volume
\* times the sum of the samples of the rendering patches, one term for every
\* occurrence of c in a patch's channel list.
C13_MixIsScaledSum ==
    [][RenderStep =>
        \A frame \in 0..(framesPerBuffer - 1), c \in Channels :
            outputBuffer'[frame * NumOutputChannels + c] * Unit =
                current_master_volume * SumOfSamples(1, frame, c)]_vars

\* C14: whatever the channel lists hold, the mix writes to no position
\* outside the frames * num_output_channels samples of the output buffer.
C14_MixWritesInsideBuffer == stray = {}

\* C16: the callback is never inside its cleanup or its mix loop while the
\* control thread is inside the body of get_or_create_synth,
\* get_or_create_patch, delete_synth, delete_patch, list_synths, list_patches
\* or stop_all, and whichever of the two is inside holds the engine mutex.
C16_MapsMutuallyExclusive ==
    /\ \A op \in {"get_or_create_synth", "get_or_create_patch", "delete_synth",
                   "delete_patch", "list_synths", "list_patches", "stop_all"} :
          ctl.at = "body" /\ ctl.op = op =>
              rt.at \notin {"cleanup", "mix"} /\ engine_mutex = "control"
    /\ rt.at \in {"cleanup", "mix"} => engine_mutex = "callback"

\* The control thread waits at the lock of stop_all while the callback mixes.
C16_Witness ==
    /\ rt.at = "mix"
    /\ ReadingPatch # ""
    /\ ctl.at = "lock"
    /\ ctl.op = "stop_all"

\* C17: the control thread is never inside Patch::set_synth_name or
\* Patch::set_channels of a patch while the mix loop is reading that patch.
C17_PatchSettersSerialised ==
    ~(ctl.at = "body" /\ ctl.op \in PatchSetters /\ ReadingPatch = ctl.patch)

\* C18: the step in which stop_all runs leaves every synth of the synth map
\* (those queued for deletion too) with is_playing false and its frequency,
\* amplitude, phase offset and wavetable as they were, and leaves the names
\* in the synth map, the patch map, both deletion queues and the master
\* volume unchanged.
C18_StopAllFrame ==
    [][ctl.at = "body" /\ ctl.op = "stop_all" /\ ctl'.at = "idle" =>
          /\ DOMAIN synths' = DOMAIN synths
          /\ \A n \in DOMAIN synths :
                synths'[n] = [synths[n] EXCEPT !.is_playing = FALSE]
          /\ patches' = patches
          /\ synth_names_to_delete' = synth_names_to_delete
          /\ patch_names_to_delete' = patch_names_to_delete
          /\ master_volume' = master_volume]_vars

\* stop_all has returned with a synth still queued for deletion, a patch
\* registered and a master volume that is not the default.
C18_Witness ==
    /\ last = "stop_all"
    /\ ctl.at = "idle"
    /\ synth_names_to_delete = <<"s1">>
    /\ "s1" \in DOMAIN synths
    /\ "p1" \in DOMAIN patches
    /\ master_volume # DefaultMasterVolume

\* C19: get_master_volume returns the argument of the latest
\* set_master_volume unchanged, whatever its value, and 1.0 if there was none.
C19_VolumeStoredUnchanged ==
    get_master_volume = IF volume_set = << >> THEN DefaultMasterVolume
                                              ELSE volume_set[1]

\* C19, amended: get_master_volume returns the argument of the latest
\* set_master_volume converted to a float (unchanged when a float can hold
\* it, never clamped), and 1.0 if there was none; only the body of
\* set_master_volume changes the master volume.
C19_VolumeStoredAsFloat ==
    /\ [](get_master_volume = IF volume_set = << >> THEN DefaultMasterVolume
                                                   ELSE ToFloat(volume_set[1]))
    /\ [](volume_set # << >> /\ BitLength(Abs(volume_set[1])) <= FloatPrecision
            => get_master_volume = volume_set[1])
    /\ [][master_volume' # master_volume =>
            ctl.at = "body" /\ ctl.op = "set_master_volume"]_vars

\* set_master_volume has returned, its argument above 2.0 was one a float
\* cannot hold, and 2.0 is stored.
C19_Witness ==
    /\ ctl.at = "idle"
    /\ volume_set # << >>
    /\ volume_set[1] > 2 * Unit
    /\ get_master_volume = 2 * Unit

\* C20: a construction whose device index does not resolve ends in the
\* invalid-device error, one whose device resolves and whose channel count
\* exceeds the device's maximum ends in the channel-count error, neither gets
\* past its test, and in both the stream is never opened.
C20_ConstructorRejects ==
    /\ [](~DeviceResolves(ctor.device_index) =>
            /\ ctor.at \in {"device", "failed"}
            /\ ctor.at = "failed" => ctor.error = "Invalid device index"
            /\ stream_ = "null")
    /\ [](/\ DeviceResolves(ctor.device_index)
          /\ ctor.num_channels > MaxOutputChannels(ctor.device_index)
          => /\ ctor.at \in {"device", "channels", "failed"}
             /\ ctor.at = "failed" =>
                   ctor.error = "Device does not support requested number of output channels"
             /\ stream_ = "null")
    /\ [][stream_ = "null" /\ stream_' # "null" => ctor.at = "open"]_vars

\* A construction has failed on a device with one channel fewer than asked for.
C20_Witness ==
    /\ ctor.at = "failed"
    /\ DeviceResolves(ctor.device_index)
    /\ ctor.num_channels = MaxOutputChannels(ctor.device_index) + 1
    /\ ctor.error = "Device does not support requested number of output channels"
    /\ stream_ = "null"

\* C21: once the constructor has thrown, whatever the step it failed at, no
\* stream is open and none is started, so that the callback cannot run.
C21_NothingLeftAfterFailure == ctor.at = "failed" => stream_ = "null"

\* C22: a start or a stop leaves every synth's frequency, amplitude, phase
\* offset and wavetable, and the master phase, as they were; a mix adds its
\* frame count to the master phase whether or not anything plays, and a
\* synth it renders after having been passed over is rendered from the
\* master phase, as the synths that were never stopped are.
C22_StopStartKeepsPlace ==
    /\ [][(\E n \in SynthNames : Start(n) \/ Stop(n)) =>
            /\ DOMAIN synths' = DOMAIN synths
            /\ \A n \in DOMAIN synths :
                  synths'[n] = [synths[n] EXCEPT !.is_playing = synths'[n].is_playing]
            /\ master_phase' = master_phase]_vars
    /\ [][RenderStep =>
            /\ master_phase' = master_phase + framesPerBuffer * Unit
            /\ continuity'.resumed # {} => starts' = {master_phase}]_vars

\* The second callback has rendered, from the master phase the first left, a
\* synth that the first passed over.
C22_Witness ==
    /\ pc = "mixed"
    /\ "s1" \in continuity.resumed
    /\ current_master_phase > 0
    /\ starts = {current_master_phase}
    /\ master_phase = current_master_phase + framesPerBuffer * Unit

\* C23: every smoothed change to a value sets the frequency to the value and
\* the phase to old_freq * t_prev + old_phase - value * t_now, and stores as
\* the new t_prev the very t_now of that formula.
C23_SmoothFreq ==
    [][\A value \in SmoothFrequencies : SmoothFreq(value) =>
          /\ script'.freq = value
          /\ script'.phase = script.freq * script.lastTime + script.phase
                               - value * script'.t_now
          /\ script'.lastTime = script'.t_now]_vars

\* C24: an update stores its value and calls every callback registered at
\* that moment exactly once, with that value, and calls nothing else; a
\* registration under an id puts its callback there, in place of the one the
\* id had if it had one, and leaves the other ids as they were.
C24_ControlFansOut ==
    /\ [][\A v \in {0, 440, 880} : update(v) =>
            /\ control'.value = v
            /\ Len(control'.calls) = Cardinality(DOMAIN control.callbacks)
            /\ \A id \in DOMAIN control.callbacks :
                  /\ Cardinality({i \in DOMAIN control'.calls :
                                    control'.calls[i].id = id}) = 1
                  /\ \A i \in DOMAIN control'.calls :
                        control'.calls[i].id = id =>
                            /\ control'.calls[i].fn = control.callbacks[id]
                            /\ control'.calls[i].arg = v]_vars
    /\ [][\A id \in {"s1_freq", "s1_amp"}, fn \in {"s1.freq", "s1.amp", "s2.freq"} :
            register_callback(id, fn) =>
              /\ DOMAIN control'.callbacks = DOMAIN control.callbacks \cup {id}
              /\ control'.callbacks[id] = fn
              /\ \A other \in DOMAIN control.callbacks \ {id} :
                    control'.callbacks[other] = control.callbacks[other]
              /\ control'.value = control.value]_vars

\* An update has called two callbacks, and the callback of one id has since
\* been replaced.
C24_Witness ==
    /\ Len(control.calls) = 2
    /\ control.value = 880
    /\ \E i \in DOMAIN control.calls :
          /\ control.calls[i].id \in DOMAIN control.callbacks
          /\ control.callbacks[control.calls[i].id] # control.calls[i].fn

\* C25: the volume a mix applies to its buffer is the master volume as it is
\* stored when the mix begins, so that of the latest set_master_volume to
\* have returned by then.
C25_MixAppliesStoredVolume ==
    [][RenderStep => current_master_volume = master_volume]_vars

\* C26: a replacement of the wavetable of a registered synth, by
\* update_wavetable or by get_or_create_synth on its name, is never waiting
\* for a lock the callback holds while the callback renders another synth.
C26_ReplacingNeverWaitsForOtherRender ==
    ~(/\ ctl.at = "lock"
      /\ ctl.synth \in DOMAIN synths
      /\ \/ /\ ctl.op = "update_wavetable"
            /\ wavetable_mutex[WavetableMutexOf(ctl.synth)] = "callback"
         \/ /\ ctl.op = "get_or_create_synth"
            /\ engine_mutex = "callback"
      /\ rt.at = "render"
      /\ SynthAtCursor # ctl.synth)

\* C26, amended: update_wavetable never holds the engine mutex; it waits for
\* its lock only while the callback renders that same synth; and while it
\* holds its lock the wavetable mutex of every other synth is free for the
\* callback to render it.
C26_UpdateWavetableContendsOwnLockOnly ==
    ctl.op = "update_wavetable" =>
        /\ engine_mutex # "control"
        /\ ctl.at = "lock" /\ rt.at = "render" /\ SynthAtCursor # ctl.synth =>
              wavetable_mutex[WavetableMutexOf(ctl.synth)] = "free"
        /\ ctl.at = "body" =>
              \A n \in DOMAIN synths \ {ctl.synth} :
                  wavetable_mutex[WavetableMutexOf(n)] # "control"

\* update_wavetable is replacing the table of one synth while the callback
\* is inside the render of another.
C26_Witness ==
    /\ ctl.op = "update_wavetable"
    /\ ctl.at = "body"
    /\ rt.at = "render"
    /\ SynthAtCursor # ctl.synth

\* C27: a deletion queued while a callback is past its cleanup is not applied
\* by the rest of that callback (no step but a cleanup removes a name from a
\* map or from a queue), the cleanup at the start of the next callback
\* applies it and leaves both queues empty, and with callbacks that keep
\* occurring every queued name is eventually out of its map.
C27_QueuedDeletionAppliedAtNextCleanup ==
    /\ [][IF CleanupStep
          THEN /\ synth_names_to_delete' = << >>
               /\ patch_names_to_delete' = << >>
               /\ Range(synth_names_to_delete) \cap DOMAIN synths' = {}
               /\ Range(patch_names_to_delete) \cap DOMAIN patches' = {}
          ELSE /\ DOMAIN synths \subseteq DOMAIN synths'
               /\ DOMAIN patches \subseteq DOMAIN patches'
               /\ IsPrefix(synth_names_to_delete, synth_names_to_delete')
               /\ IsPrefix(patch_names_to_delete, patch_names_to_delete')]_vars
    /\ \A n \in SynthNames :
          (n \in Range(synth_names_to_delete)) ~> (n \notin DOMAIN synths)
    /\ \A p \in PatchNames :
          (p \in Range(patch_names_to_delete)) ~> (p \notin DOMAIN patches)

\* C27 witness: a callback is past its cleanup, a delete_synth called since
\* that cleanup has queued a synth and its patch, and both are still listed
\* when the mix of that callback is over.
C27_Witness ==
    /\ pc = "mixed"
    /\ \E n \in Range(synth_names_to_delete) \cap doomed : n \in list_synths
    /\ \E p \in Range(patch_names_to_delete) \cap doomed : p \in list_patches

\* The orders the patches of the map can be iterated in.
PatchOrders ==
    {order \in [1..Len(PatchOrder) -> Range(PatchOrder)] :
        Range(order) = Range(PatchOrder)}

\* What the mix of the current callback leaves in the buffer, and the indices
\* outside it that it writes to, when it takes the patches in `order`.
MixedIn(order, junk) ==
    LET mixed == MixPatchesIn(order, [buffer |-> outputBuffer, stray |-> {},
                                      starts |-> {}], 1, junk)
    IN <<mixed.buffer, mixed.stray>>

\* The number of additions the mix makes to out[index].
ContributionsTo(index) ==
    Cardinality(UNION {
        {c \in {p} \X (DOMAIN patches[p].channels) \X (0..(framesPerBuffer - 1)) :
            /\ patches[p].channels[c[2]] < NumOutputChannels
            /\ c[3] * NumOutputChannels + patches[p].channels[c[2]] = index}
        : p \in {q \in DOMAIN patches : Renders(q)}})

\* C28 as stated: whatever order the mix takes the patches in, it leaves the
\* buffer the callback's mix leaves.
C28_OutputOrderIndependent ==
    [][RenderStep =>
         \A junk \in JunkSamples :
            MixedIn(PatchOrder, junk) = <<outputBuffer', stray'>> =>
               \A order \in PatchOrders :
                  MixedIn(order, junk) = <<outputBuffer', stray'>>]_vars

\* C28 amended: when no position of the buffer is added to more than twice,
\* the mix leaves the same buffer whatever order it takes the patches in.
C28_OrderIndependentUpToTwoContributions ==
    [][RenderStep /\ (\A index \in DOMAIN outputBuffer :
                         ContributionsTo(index) <= 2) =>
         \A junk \in JunkSamples :
            MixedIn(PatchOrder, junk) = <<outputBuffer', stray'>> =>
               \A order \in PatchOrders :
                  MixedIn(order, junk) = <<outputBuffer', stray'>>]_vars

\* C28 witness: a callback has mixed two patches of synths with different
\* tables, each adding once to the same positions.
C28_Witness ==
    /\ pc = "mixed"
    /\ DOMAIN patches = PatchNames
    /\ \A p \in PatchNames : Renders(p) /\ patches[p].channels = <<0>>
    /\ synths[patches["p1"].synth_name].wavetable
          # synths[patches["p2"].synth_name].wavetable
    /\ outputBuffer[0] # 0

\* C29: when the mix of a callback is over, every position of the buffer that
\* no patch of a registered, playing synth has added to holds exactly 0,
\* whatever the buffer held before the callback and whatever patches of
\* stopped or unregistered synths are in the map.
C29_UnwrittenPositionsAreZero ==
    [][RenderStep =>
         \A index \in DOMAIN outputBuffer' :
            ContributionsTo(index) = 0 => outputBuffer'[index] = 0]_vars

\* C29 witness: a callback has mixed a playing synth into some position while
\* the map holds a patch of a name that no synth has, and a position that
\* patch names was left alone.
C29_Witness ==
    /\ pc = "mixed"
    /\ \E index \in DOMAIN outputBuffer : outputBuffer[index] # 0
    /\ \E p \in DOMAIN patches :
          /\ patches[p].synth_name \notin DOMAIN synths
          /\ \E c \in Range(patches[p].channels) \cap Channels :
                ContributionsTo(c) = 0 /\ outputBuffer[c] = 0

\* C30: a name that get_or_create_synth or get_or_create_patch has returned
\* for, and that no delete_synth or delete_patch has named since, is listed,
\* however many callbacks have run and whatever was deleted before.
C30_DeclaredStaysListed ==
    /\ kept \cap SynthNames \subseteq list_synths
    /\ kept \cap PatchNames \subseteq list_patches

\* C31 as stated: a patch that delete_synth queued, that no delete_patch has
\* queued a second time and that is bound, when the cleanup runs, to a synth
\* that the cleanup leaves registered, is still registered after the cleanup.
C31_ReboundPatchSurvives ==
    [][CleanupStep =>
         \A p \in DOMAIN patches :
            /\ p \in doomed
            /\ Occurrences(p, patch_names_to_delete) = 1
            /\ patches[p].synth_name \in DOMAIN synths'
            => p \in DOMAIN patches']_vars

\* C31 amended: the cleanup removes exactly the patches whose names are in
\* the patch queue, whatever they are bound to by then, and a name enters
\* that queue only through delete_patch of that name or through
\* delete_synth(s) while the patch is bound to s.
C31_QueuedPatchRemovedWhateverItsSynth ==
    [][/\ CleanupStep =>
            DOMAIN patches' = DOMAIN patches \ Range(patch_names_to_delete)
       /\ patch_names_to_delete' # patch_names_to_delete =>
            \/ CleanupStep
            \/ \E p \in DOMAIN patches :
                  patch_names_to_delete' = Append(patch_names_to_delete, p)
            \/ \E n \in DOMAIN synths :
                  /\ patch_names_to_delete' =
                        patch_names_to_delete \o BoundPatches(n, 1)
                  /\ synth_names_to_delete' = Append(synth_names_to_delete, n)
                  /\ \A p \in Range(BoundPatches(n, 1)) :
                        patches[p].synth_name = n]_vars

\* C31 witness: delete_synth(s) has queued s and a patch bound to it, the
\* patch has since been bound to another synth that is registered and not
\* queued, and the next callback has not begun.
C31_Witness ==
    /\ pc = "idle"
    /\ \E p \in DOMAIN patches :
          /\ p \in doomed
          /\ Occurrences(p, patch_names_to_delete) = 1
          /\ patches[p].synth_name \in DOMAIN synths
          /\ patches[p].synth_name \notin Range(synth_names_to_delete)

\* C32: a thread that holds a wavetable mutex and the engine mutex took the
\* engine mutex first, no thread waits for the engine mutex while it holds a
\* wavetable mutex, and every call of the control thread and every callback
\* that has started comes to its end.
C32_NoDeadlock ==
    /\ [][\A thread \in {"control", "callback"} :
            engine_mutex # thread /\ engine_mutex' = thread =>
               \A n \in DOMAIN wavetable_mutex : wavetable_mutex[n] # thread]_vars
    /\ [](ctl.at = "lock" /\ engine_mutex # "control" =>
            \A n \in DOMAIN wavetable_mutex : wavetable_mutex[n] # "control")
    /\ [](rt.at \in {"cleanup_lock", "mix_lock"} =>
            \A n \in DOMAIN wavetable_mutex : wavetable_mutex[n] # "callback")
    /\ (ctl.at # "idle") ~> (ctl.at = "idle")
    /\ (rt.at # "idle") ~> (rt.at = "idle")

\* C32 witness: get_or_create_synth holds the engine mutex and the wavetable
\* mutex of its synth while the callback waits for the engine mutex.
C32_Witness ==
    /\ ctl.op = "get_or_create_synth"
    /\ ctl.at = "body"
    /\ engine_mutex = "control"
    /\ wavetable_mutex[WavetableMutexOf(ctl.synth)] = "control"
    /\ rt.at = "mix_lock"

\* C33: every frame of a render call is computed from the same frequency,
\* amplitude, phase offset and wavetable, and from its two loads to its
\* return the callback scales by one master volume, whatever the setters
\* store in between.
C33_OneRenderOneSetOfInputs ==
    /\ [](\A i, j \in DOMAIN used : used[i] = used[j])
    /\ [][(pc \in {"loaded", "rendering"}) =>
            current_master_volume' = current_master_volume]_vars

\* C33 witness: a render call is between two frames, the synth's frequency,
\* amplitude and phase offset are no longer those the call loaded, and the
\* master volume is no longer the one the callback loaded.
C33_Witness ==
    /\ pc = "rendering"
    /\ Len(used) >= 1
    /\ Len(used) < job.frames
    /\ LET s == synths[patches[FramePatch].synth_name] IN
       /\ s.frequency # job.synth.frequency
       /\ s.amplitude # job.synth.amplitude
       /\ s.phase_offset # job.synth.phase_offset
    /\ master_volume # current_master_volume

\* No synth of the synth map is playing.
AllStopped == \A n \in DOMAIN synths : ~synths[n].is_playing

\* C34: stop_all returns with no synth playing; as long as no start is
\* called no synth is playing after any step, a step that creates a synth
\* included; and a mix that begins with no synth playing leaves a buffer of
\* zeros only.
C34_SilentAfterStopAll ==
    [][/\ last' = "stop_all" => AllStopped'
       /\ AllStopped /\ ~(\E n \in SynthNames : Start(n)) => AllStopped'
       /\ RenderStep /\ AllStopped =>
             \A index \in DOMAIN outputBuffer' : outputBuffer'[index] = 0]_vars

\* C34 witness: stop_all has just returned, after an earlier callback, with
\* a patch of a registered synth in the map and a master volume that is not
\* 0, and a callback is about to begin its mix.
C34_Witness ==
    /\ last = "stop_all"
    /\ pc = "loaded"
    /\ master_phase > 0
    /\ current_master_volume # 0
    /\ \E p \in DOMAIN patches : patches[p].synth_name \in DOMAIN synths

\* C35: in the earlier engine every registered patch names a registered
\* synth, in every state the control thread or the mix loop can see.
C35_EarlierPatchNamesRegisteredSynth ==
    \A p \in DOMAIN patches : patches[p].synth_name \in DOMAIN synths

\* C35 witness: the earlier _cleanup() has swapped the queues and is about
\* to erase a registered synth that a registered patch, itself not queued,
\* is bound to.
C35_Witness ==
    /\ pc = "swapped"
    /\ \E n \in Range(to_process.synths) \cap DOMAIN synths :
          \E p \in DOMAIN patches \ Range(to_process.patches) :
             patches[p].synth_name = n
====
